---- MODULE Spec2Model ----
(***************************************************************************)
(* Model of the video-processing pipeline core:                            *)
(*   video_processor/queue.py         MessageQueue (bounded FIFO + retry)  *)
(*   video_processor/orchestrator.py  Orchestrator (sync and queue mode)   *)
(* Threads are modelled explicitly; a step is one atomic region of the     *)
(* Python code: a region under self.lock, one call on the thread-safe      *)
(* queue.Queue channel, one dictionary access, one back-end call.          *)
(***************************************************************************)
EXTENDS Integers, Sequences, FiniteSets, TLC

\* ------------------------------------------------------------------ bounds
MaxTasks == 2          \* queue tasks minted by the MessageQueue API clients
MaxQueueSize == 2      \* largest max_size the API clients' queue is built with
NClients == 2          \* threads calling the MessageQueue API
MaxStrayFailures == 1  \* mark_failed calls accepted beyond the retry budget
MaxCompletions == 1    \* mark_completed calls accepted on known tasks
NWorkers == 1          \* queue worker threads of the orchestrator
MaxPipelines == 2      \* process_video calls made by the submitting thread
NUrls == 2             \* distinct video URLs submitted
MaxBackendFailures == 1  \* back-end failures injected per pipeline
MaxPipeTasks == 8      \* queue tasks minted by the orchestrator
MaxScriptFailures == 2 \* largest k of a back-end that fails k times, then succeeds
NCacheKeys == 4        \* distinct keys given to the LRUCache
NCacheValues == 2      \* distinct values given to the LRUCache
MaxCacheSize == 3      \* largest max_size an LRUCache is built with
MaxTtl == 1            \* largest ttl an LRUCache is built with
MaxTime == 2           \* latest reading of the clock
MaxGets == 3           \* get calls between two clears
BatchSize == 2         \* length of the URL list given to process_batch_concurrent

\* ------------------------------------------------------- program constants
DefaultMaxRetries == 3
QUEUE_MAX_SIZE == 10000

PENDING == "pending"
RUNNING == "running"
COMPLETED == "completed"
FAILED == "failed"
TaskStatus == {PENDING, RUNNING, COMPLETED, FAILED}

DOWNLOAD == "download"
EXTRACT == "extract"
TRANSCRIBE == "transcribe"
SUMMARIZE == "summarize"
TaskType == {DOWNLOAD, EXTRACT, TRANSCRIBE, SUMMARIZE}

NoError == "none"
ErrorMessages == {"err"}

Clients == 1..NClients
ClientTaskTypes == {DOWNLOAD}   \* the type is opaque to the queue
TaskIds == 1..MaxTasks

VARIABLES
  max_size,         \* MessageQueue.max_size
  channel,          \* MessageQueue.queue: the FIFO channel, a sequence of entries
                    \* [id: the Task put, seq: the serial number of that put]
  tasks,            \* MessageQueue.tasks: the ids registered in the side table
  task,             \* the Task objects, by task id (shared by channel and side table)
  completed_count,  \* MessageQueue.completed_count
  failed_count,     \* MessageQueue.failed_count
  nextId,           \* number of task ids minted so far, plus one
  pushed,           \* history: number of puts into the channel so far
  delivered,        \* history: number of gets from the channel so far
  hist,             \* history per task: dequeues returned, mark_failed calls, and
                    \* whether every mark so far was a mark_failed answering a dequeue
  op,               \* the call (or step of a call) that was executed last
  pc,               \* per thread: where it is in its code
  cur,              \* per thread: the queue task id it has in hand (0: none)
  task_metadata,    \* Orchestrator.task_metadata, by pipeline id
  results,          \* Orchestrator.results: pipeline ids with a stored result
  cache,            \* stage outputs that can be looked up, by key: the shared LRUCache
                    \* and, for downloads, the files in the download directory
  loc,              \* per thread: the locals of the stage it is executing
  pipe_hist,        \* history per pipeline: mode, stages whose back-end was
                    \* started, outputs produced, back-end failures, refusals
  backend,          \* the environment: how the stage back-ends (yt-dlp, ffmpeg,
                    \* Whisper, the chat model) behave when they are invoked
  pool,             \* Orchestrator.thread_pool: is_shutdown, the threads a job
                    \* was submitted for (futures), submitted_count
  lru,              \* an LRUCache under its API: max_size, the OrderedDict as a
                    \* sequence (least recently used first), hits, misses
  keygen,           \* the last CacheKeyGenerator calls: two inputs and their keys
  agg,              \* a ResultAggregator: _results_cache and the JSON files of
                    \* its storage directory, by task id
  tp,               \* a ThreadPool under its API: the executor's work items, the
                    \* futures table, the counters, each caller's position
  tg,               \* a TranscriptGenerator with a cache: the cached transcript
                    \* per audio file, the last generate call and what it returned
  sg,               \* a SummaryGenerator.generate_concurrent call: its inputs,
                    \* its position and the results dictionary it builds
  clears            \* history of the MessageQueue.clear calls: their number, the
                    \* tasks a dequeue had returned before a clear, and those of
                    \* them with no enqueue or dequeue call in progress at it

qvars == <<max_size, channel, tasks, task, completed_count, failed_count, nextId,
           pushed, delivered, hist>>

ovars ==
  <<task_metadata, results, cache, loc, pipe_hist, backend, pool, lru, keygen, agg,
    tp, tg, sg, clears>>

vars == <<qvars, op, pc, cur, ovars>>

\* ------------------------------------------------------------ Task objects
NewTask(task_type, input_data) ==
  [task_type |-> task_type, input_data |-> input_data, retry_count |-> 0,
   max_retries |-> DefaultMaxRetries, status |-> PENDING, error_message |-> NoError]

NewHist == [deq |-> 0, fail |-> 0, answered |-> TRUE]

Minted == 1..(nextId - 1)

\* ------------------------------------------------------------- the channel
ChannelFull_off(ch) == Len(ch) > max_size
ChannelFull(ch) == Len(ch) >= max_size

ChannelPut_front(ch, e) == <<e>> \o ch
ChannelPut(ch, e) == Append(ch, e)

ChannelNext(ch) == Head(ch)

ChannelRest_peek(ch) == ch
ChannelRest(ch) == Tail(ch)

Entry(id) == [id |-> id, seq |-> pushed + 1]

\* ------------------------------------------------------------ retry policy
ShouldRetry_lt(t) == t.retry_count < t.max_retries
ShouldRetry_always(t) == TRUE
ShouldRetry(t) == t.retry_count <= t.max_retries

RecordFailure(t, msg) == [t EXCEPT !.error_message = msg, !.retry_count = @ + 1]

OpRec(name, id, result, seq) ==
  [name |-> name, task_id |-> id, result |-> result, seq |-> seq]

\* ------------------------------------------------- MessageQueue.enqueue
\* queue.put(task, block=False) on a channel with room: the task is minted and
\* pushed; the side-table registration follows under the lock.
mq_put(task_type, input_data) ==
  /\ ~ChannelFull(channel)
  /\ channel' = ChannelPut(channel, Entry(nextId))
  /\ task' = Append(task, NewTask(task_type, input_data))
  /\ hist' = Append(hist, NewHist)
  /\ pushed' = pushed + 1
  /\ nextId' = nextId + 1
  /\ op' = OpRec("enqueue_put", nextId, "ok", pushed + 1)
  /\ UNCHANGED <<max_size, tasks, completed_count, failed_count, delivered>>

\* queue.put raises Full: enqueue raises QueueError before the registration.
mq_put_full ==
  /\ ChannelFull(channel)
  /\ op' = OpRec("enqueue_put", 0, "QueueError", 0)
  /\ UNCHANGED qvars

\* with self.lock: self.tasks[task_id] = task; return task_id
mq_register(id) ==
  /\ tasks' = tasks \cup {id}
  /\ op' = OpRec("enqueue", id, "ok", 0)
  /\ UNCHANGED <<max_size, channel, task, completed_count, failed_count, nextId,
                 pushed, delivered, hist>>

\* ------------------------------------------------- MessageQueue.dequeue
\* task = self.queue.get(timeout=timeout) delivers the head of the channel
mq_get ==
  /\ Len(channel) > 0
  /\ channel' = ChannelRest(channel)
  /\ delivered' = delivered + 1
  /\ op' = OpRec("dequeue_get", ChannelNext(channel).id, "ok", ChannelNext(channel).seq)
  /\ UNCHANGED <<max_size, tasks, task, completed_count, failed_count, nextId,
                 pushed, hist>>

\* queue.get raises Empty after the timeout: dequeue returns None
mq_get_empty ==
  /\ Len(channel) = 0
  /\ op' = OpRec("dequeue", 0, "none", 0)
  /\ UNCHANGED qvars

\* with self.lock: task.status = RUNNING; self.tasks[task.task_id] = task
mq_running(id) ==
  /\ task' = [task EXCEPT ![id].status = RUNNING]
  /\ tasks' = tasks \cup {id}
  /\ hist' = [hist EXCEPT ![id].deq = @ + 1]
  /\ op' = OpRec("dequeue", id, "ok", 0)
  /\ UNCHANGED <<max_size, channel, completed_count, failed_count, nextId,
                 pushed, delivered>>

\* -------------------------------------------- MessageQueue.mark_completed
mq_mark_completed(id) ==
  /\ IF id \notin tasks
       THEN /\ op' = OpRec("mark_completed", id, "false", 0)
            /\ UNCHANGED <<task, completed_count, hist>>
       ELSE /\ task' = [task EXCEPT ![id].status = COMPLETED]
            /\ completed_count' = completed_count + 1
            /\ hist' = [hist EXCEPT ![id].answered = FALSE]
            /\ op' = OpRec("mark_completed", id, "true", 0)
  /\ UNCHANGED <<max_size, channel, tasks, failed_count, nextId, pushed, delivered>>

\* ----------------------------------------------- MessageQueue.mark_failed
mq_mark_failed(id, msg) ==
  /\ IF id \notin tasks
       THEN /\ op' = OpRec("mark_failed", id, "false", 0)
            /\ UNCHANGED <<channel, task, failed_count, pushed, hist>>
       ELSE LET failed == RecordFailure(task[id], msg)
                requeue == ShouldRetry(failed) /\ ~ChannelFull(channel)
            IN  /\ IF requeue
                     THEN /\ task' = [task EXCEPT ![id] = [failed EXCEPT !.status = PENDING]]
                          /\ channel' = ChannelPut(channel, Entry(id))
                          /\ pushed' = pushed + 1
                          /\ UNCHANGED failed_count
                     ELSE /\ task' = [task EXCEPT ![id] = [failed EXCEPT !.status = FAILED]]
                          /\ failed_count' = failed_count + 1
                          /\ UNCHANGED <<channel, pushed>>
                /\ hist' = [hist EXCEPT ![id].fail = @ + 1,
                                        ![id].answered = @ /\ hist[id].fail < hist[id].deq
                                                           /\ task[id].status = RUNNING]
                /\ op' = OpRec("mark_failed", id, "true", 0)
  /\ UNCHANGED <<max_size, tasks, completed_count, nextId, delivered>>

\* ===================================== clients of the MessageQueue API
\* Any thread may call any method with any task id at any time.
InitQueue ==
  /\ channel = <<>>
  /\ tasks = {}
  /\ task = <<>>
  /\ completed_count = 0
  /\ failed_count = 0
  /\ nextId = 1
  /\ pushed = 0
  /\ delivered = 0
  /\ hist = <<>>
  /\ op = OpRec("init", 0, "ok", 0)

NoArtifact == [kind |-> "none", url |-> 0]

NoLoc == [pipe |-> 0, stage |-> "none", input |-> NoArtifact, out |-> NoArtifact,
          new |-> 0]

\* Behaviours of the stage back-ends.  AnyBackend: every invocation may fail,
\* up to a bounded number of failures per pipeline.  FailsThenSucceeds(s, k):
\* in each pipeline the back-end of stage s fails its first k invocations and
\* succeeds afterwards, the other back-ends succeed.  AlwaysFails(s): the
\* back-end of stage s fails every time.
AnyBackend == [stage |-> "any", fails |-> MaxBackendFailures, always |-> FALSE]

FailsThenSucceeds(s, k) == [stage |-> s, fails |-> k, always |-> FALSE]

AlwaysFails(s) == [stage |-> s, fails |-> 0, always |-> TRUE]

BackendFails(p, s) ==
  IF backend.stage = "any"
    THEN pipe_hist[p].failures < backend.fails
    ELSE /\ backend.stage = s
         /\ backend.always \/ pipe_hist[p].failed_stage[s] < backend.fails

BackendSucceeds(p, s) ==
  IF backend.stage = "any" THEN TRUE ELSE ~BackendFails(p, s)

\* ThreadPool.__init__
\* executor_shutdown is the executor's own flag, set when its shutdown begins
NewPool == [is_shutdown |-> FALSE, executor_shutdown |-> FALSE, futures |-> {},
            submitted_count |-> 0]

\* LRUCache.__init__(max_size, ttl); ttl None is NoTtl.  cache is the
\* OrderedDict: entries [key, value, timestamp], least recently used first;
\* now is the reading of time.time()
NoTtl == -1

CacheKeys == 1..NCacheKeys
CacheValues == 1..NCacheValues

\* no set of the key is in force
NoSet == [value |-> 0, time |-> 0]

\* history kept beside the object: gets is the number of get calls since
\* creation or the last clear; recent lists the keys whose set is in force,
\* least recently got-or-set first; sets gives per key the value and the
\* time of its most recent set, while that set is in force
NewCache(n, ttl) ==
  [max_size |-> n, ttl |-> ttl, cache |-> <<>>, hits |-> 0, misses |-> 0, now |-> 0,
   gets |-> 0, recent |-> <<>>, sets |-> [k \in CacheKeys |-> NoSet]]

CACHE_SIZE == 1000

\* config.THREAD_POOL_SIZE: os.cpu_count() or 4
THREAD_POOL_SIZE == 4

\* the threads that call the ThreadPool API
NPoolCallers == 2

PoolCallers == 1..NPoolCallers

IdleCall == [pc |-> "idle", task_id |-> 0, snapshot |-> {}, yielded |-> {}]

\* ThreadPool.__init__: an executor of max_workers threads with no work item,
\* an empty futures table, the counters at 0, not shut down
NewThreadPool(n) ==
  [max_workers |-> n, items |-> <<>>, futures |-> {},
   submitted_count |-> 0, completed_count |-> 0, failed_count |-> 0,
   is_shutdown |-> FALSE, executor_shutdown |-> FALSE, waits |-> 0,
   call |-> [c \in PoolCallers |-> IdleCall]]

\* no key derived yet
NoKeys == [fn |-> "none", a |-> <<>>, b |-> <<>>, key_a |-> <<>>, key_b |-> <<>>]

\* a mapping without entries
NoEntries == [i \in {} |-> 0]

Returned(kind, val) == [kind |-> kind, val |-> val]

\* ResultAggregator.__init__: an empty _results_cache over the files of the
\* storage directory; saved holds, per task id, the result last passed to save
\* while its file exists, fresh the task ids saved and not aggregated again
\* since, and ret the value the last call returned
NewAggregator(files, saved, fresh) ==
  [results_cache |-> NoEntries, files |-> files, saved |-> saved, fresh |-> fresh,
   ret |-> Returned("none", 0)]

\* TranscriptGenerator.__init__(cache=LRUCache(...)): nothing cached, no
\* generate call made; calls counts the generate calls, call is the last one
NoCall == [audio_path |-> <<>>, language |-> "none"]

NewTranscriptGenerator ==
  [cache |-> NoEntries, calls |-> 0, call |-> NoCall, ret |-> Returned("none", 0)]

\* no generate_concurrent call: the arguments, the position in the loops, the
\* outcome of each submitted generate and the results dictionary
NoSummaries ==
  [pc |-> "none", transcripts |-> <<>>, pooled |-> FALSE, failing |-> {},
   i |-> 0, outcome |-> NoEntries, results |-> NoEntries]

\* MessageQueue.clear not called yet
NoClears == [n |-> 0, dequeued |-> {}, settled |-> {}]

\* no stage output stored yet
EmptyCache == [k \in {} |-> NoArtifact]

\* cache.set(key, value) / the downloaded file written to the directory
CachePut(c, key, value) ==
  [k \in DOMAIN c \cup {key} |-> IF k = key THEN value ELSE c[k]]

InitOrchestrator(threads) ==
  /\ task_metadata = <<>>
  /\ results = {}
  /\ cache = EmptyCache
  /\ loc = [t \in threads |-> NoLoc]
  /\ pipe_hist = <<>>
  /\ pool = NewPool
  /\ lru = NewCache(CACHE_SIZE, NoTtl)
  /\ keygen = NoKeys
  /\ agg = NewAggregator(NoEntries, NoEntries, {})
  /\ tp = NewThreadPool(THREAD_POOL_SIZE)
  /\ tg = NewTranscriptGenerator
  /\ sg = NoSummaries
  /\ clears = NoClears

Init ==
  /\ InitQueue
  /\ max_size \in 1..MaxQueueSize
  /\ pc = [t \in Clients |-> "idle"]
  /\ cur = [t \in Clients |-> 0]
  /\ InitOrchestrator(Clients)
  /\ backend = AnyBackend

Goto(t, label, id) ==
  /\ pc' = [pc EXCEPT ![t] = label]
  /\ cur' = [cur EXCEPT ![t] = id]

enqueue_put(t, task_type, input_data) ==
  /\ pc[t] = "idle"
  /\ nextId <= MaxTasks
  /\ mq_put(task_type, input_data)
  /\ Goto(t, "enqueue_register", nextId)
  /\ UNCHANGED ovars

enqueue_full(t) ==
  /\ pc[t] = "idle"
  /\ mq_put_full
  /\ UNCHANGED <<pc, cur, ovars>>

enqueue_register(t) ==
  /\ pc[t] = "enqueue_register"
  /\ mq_register(cur[t])
  /\ Goto(t, "idle", 0)
  /\ UNCHANGED ovars

dequeue_get(t) ==
  /\ pc[t] = "idle"
  /\ mq_get
  /\ Goto(t, "dequeue_lock", ChannelNext(channel).id)
  /\ UNCHANGED ovars

dequeue_empty(t) ==
  /\ pc[t] = "idle"
  /\ mq_get_empty
  /\ UNCHANGED <<pc, cur, ovars>>

dequeue_lock(t) ==
  /\ pc[t] = "dequeue_lock"
  /\ mq_running(cur[t])
  /\ Goto(t, "idle", 0)
  /\ UNCHANGED ovars

mark_completed(t, id) ==
  /\ pc[t] = "idle"
  /\ id \in tasks => completed_count < MaxCompletions
  /\ mq_mark_completed(id)
  /\ UNCHANGED <<pc, cur, ovars>>

mark_failed(t, id, msg) ==
  /\ pc[t] = "idle"
  /\ id \in tasks => task[id].retry_count <= DefaultMaxRetries + MaxStrayFailures
  /\ mq_mark_failed(id, msg)
  /\ UNCHANGED <<pc, cur, ovars>>

Next ==
  \/ \E t \in Clients, ty \in ClientTaskTypes : enqueue_put(t, ty, "in")
  \/ \E t \in Clients : enqueue_full(t)
  \/ \E t \in Clients : enqueue_register(t)
  \/ \E t \in Clients : dequeue_get(t)
  \/ \E t \in Clients : dequeue_empty(t)
  \/ \E t \in Clients : dequeue_lock(t)
  \/ \E t \in Clients, id \in TaskIds : mark_completed(t, id)
  \/ \E t \in Clients, id \in TaskIds, msg \in ErrorMessages : mark_failed(t, id, msg)

Spec == Init /\ [][Next]_vars

\* ============================================================ Orchestrator
\* One submitting thread calls process_video; the queue workers run
\* process_queue_worker.  Pipeline ids and queue task ids are uuid4 strings in
\* the code; here each is the index of its creation.
Main == 0
Workers == 1..NWorkers
Threads == {Main} \cup Workers
\* the pool threads that run the jobs of process_batch_concurrent
BatchThreads == (NWorkers + 1)..(NWorkers + BatchSize)
Urls == 1..NUrls
QueueSizes == {1, QUEUE_MAX_SIZE}

PROCESSING == "processing"
PIPE_COMPLETED == "completed"
PIPE_FAILED == "failed"

Pipelines == 1..Len(task_metadata)

\* the video URL a pipeline starts from, and what a stage returns for an input
Source(video_url) == [kind |-> "url", url |-> video_url]

StageOutput(stage, input) == [kind |-> stage, url |-> input.url]

\* the order of the stage calls in _process_video_sync and of the task types
\* the queue handlers enqueue
NextType_skip(stage) ==
  IF stage = DOWNLOAD THEN TRANSCRIBE ELSE SUMMARIZE
NextType(stage) ==
  CASE stage = DOWNLOAD -> EXTRACT
    [] stage = EXTRACT -> TRANSCRIBE
    [] OTHER -> SUMMARIZE

\* what a handler passes on to the next stage's task
Forward(p, out) == [parent_task_id |-> p, data |-> out]

CacheKey_stage(stage, input) == [stage |-> stage, input |-> NoArtifact]
CacheKey(stage, input) == [stage |-> stage, input |-> input]

\* self.task_metadata[task_id] = {"video_url": ..., "status": "processing"}
NewMetadata(video_url) ==
  [video_url |-> video_url, status |-> PROCESSING, has_queue_tasks |-> FALSE,
   queue_tasks |-> [s \in TaskType |-> 0], error |-> NoError]

\* str(e) of the exception a stage raised: here, the name of the stage
ErrorText(stage) == stage

NewPipeHist(use_queue) ==
  [use_queue |-> use_queue, started |-> {},
   produced |-> [s \in TaskType |-> NoArtifact], failures |-> 0,
   failed_stage |-> [s \in TaskType |-> 0],
   refused |-> FALSE, key_errors |-> 0, result |-> NoArtifact]

InitPipeline ==
  /\ InitQueue
  /\ max_size \in QueueSizes
  /\ pc = [t \in Threads |-> IF t = Main THEN "idle" ELSE "off"]
  /\ cur = [t \in Threads |-> 0]
  /\ InitOrchestrator(Threads)
  /\ backend = AnyBackend

At(t, label) == pc' = [pc EXCEPT ![t] = label]

\* where a thread goes when the stage it runs raises
OnError_finish(t) == IF t \in Workers THEN "h_finish" ELSE "pv_failed"
OnError_store(t) == IF t \in Workers THEN "h_failed" ELSE "sync_store"
OnError(t) ==
  IF t \in Workers THEN "h_failed"
  ELSE IF t \in BatchThreads THEN "iso_failed" ELSE "pv_failed"

\* where a thread is once _process_video_sync has returned to its caller
Finished(t) == IF t \in BatchThreads THEN "done" ELSE "idle"

\* ThreadPool.submit(task_id, func, ...): executor.submit starts the job on a
\* pool thread, then the future is registered and submitted_count incremented
submit(t) ==
  /\ ~pool.is_shutdown /\ ~pool.executor_shutdown
  /\ pool' = [pool EXCEPT !.futures = @ \cup {t}, !.submitted_count = @ + 1]

\* The stage function returns: its output is handed to the caller.  In
\* _process_video_sync the next stage is called with it; in a queue handler
\* the next task is enqueued with it, and the SUMMARIZE handler finishes.
Return(t, out) ==
  LET me == loc[t]
  IN  /\ pipe_hist' = [pipe_hist EXCEPT ![me.pipe].produced[me.stage] = out]
      /\ IF t \in Workers
           THEN /\ loc' = [loc EXCEPT ![t].out = out]
                /\ At(t, IF me.stage = SUMMARIZE THEN "h_finish" ELSE "h_enqueue")
           ELSE IF me.stage = SUMMARIZE
                  THEN /\ loc' = [loc EXCEPT ![t].out = out]
                       /\ At(t, "sync_store")
                  ELSE /\ loc' = [loc EXCEPT ![t].stage = NextType(me.stage),
                                             ![t].input = out]
                       /\ At(t, "stage_lookup")

\* ------------------------------------------------ Orchestrator.process_video
process_video(t, video_url, use_queue) ==
  /\ t = Main /\ pc[t] = "idle"
  /\ Len(task_metadata) < MaxPipelines
  /\ task_metadata' = Append(task_metadata, NewMetadata(video_url))
  /\ pipe_hist' = Append(pipe_hist, NewPipeHist(use_queue))
  /\ loc' = [loc EXCEPT ![t] = [NoLoc EXCEPT !.pipe = Len(task_metadata) + 1,
                                             !.stage = DOWNLOAD,
                                             !.input = Source(video_url)]]
  /\ At(t, IF use_queue THEN "pv_enqueue" ELSE "stage_lookup")
  /\ op' = OpRec("process_video", Len(task_metadata) + 1, "ok", 0)
  /\ UNCHANGED <<qvars, cur, results, cache>>
  /\ UNCHANGED <<backend, pool, lru, keygen, agg, tp, tg, sg, clears>>

\* _enqueue_pipeline_tasks: message_queue.enqueue(DOWNLOAD, ...), the put
pv_enqueue(t) ==
  /\ pc[t] = "pv_enqueue"
  /\ nextId <= MaxPipeTasks
  /\ mq_put(DOWNLOAD, Forward(loc[t].pipe, loc[t].input))
  /\ Goto(t, "pv_register", nextId)
  /\ UNCHANGED ovars

\* the enqueue raises QueueError: VideoProcessingError, status "failed"
pv_enqueue_full(t) ==
  /\ pc[t] = "pv_enqueue"
  /\ mq_put_full
  /\ task_metadata' = [task_metadata EXCEPT
       ![loc[t].pipe].status = PIPE_FAILED,
       ![loc[t].pipe].error = "QueueError"]
  /\ pipe_hist' = [pipe_hist EXCEPT ![loc[t].pipe].refused = TRUE]
  /\ loc' = [loc EXCEPT ![t] = NoLoc]
  /\ Goto(t, "idle", 0)
  /\ UNCHANGED <<results, cache>>
  /\ UNCHANGED <<backend, pool, lru, keygen, agg, tp, tg, sg, clears>>

\* message_queue.enqueue, the registration under the lock
pv_register(t) ==
  /\ pc[t] = "pv_register"
  /\ mq_register(cur[t])
  /\ At(t, "pv_record")
  /\ UNCHANGED <<cur, ovars>>

\* self.task_metadata[task_id]["queue_tasks"] = {"download": download_task_id}
pv_record(t) ==
  /\ pc[t] = "pv_record"
  /\ task_metadata' = [task_metadata EXCEPT
       ![loc[t].pipe].has_queue_tasks = TRUE,
       ![loc[t].pipe].queue_tasks =
           [s \in TaskType |-> IF s = DOWNLOAD THEN cur[t] ELSE 0]]
  /\ loc' = [loc EXCEPT ![t] = NoLoc]
  /\ Goto(t, "idle", 0)
  /\ op' = OpRec("record", cur[t], "ok", 0)
  /\ UNCHANGED <<qvars, results, cache, pipe_hist>>
  /\ UNCHANGED <<backend, pool, lru, keygen, agg, tp, tg, sg, clears>>

\* process_video, except Exception: status "failed", VideoProcessingError
pv_failed(t) ==
  /\ pc[t] = "pv_failed"
  /\ task_metadata' = [task_metadata EXCEPT
       ![loc[t].pipe].status = PIPE_FAILED,
       ![loc[t].pipe].error = ErrorText(loc[t].stage)]
  /\ loc' = [loc EXCEPT ![t] = NoLoc]
  /\ Goto(t, "idle", 0)
  /\ op' = OpRec("process_video", loc[t].pipe, "VideoProcessingError", 0)
  /\ UNCHANGED <<qvars, results, cache, pipe_hist>>
  /\ UNCHANGED <<backend, pool, lru, keygen, agg, tp, tg, sg, clears>>

\* _process_video_sync: self.results[task_id] = result
sync_store(t) ==
  /\ pc[t] = "sync_store"
  /\ results' = results \cup {loc[t].pipe}
  /\ pipe_hist' = [pipe_hist EXCEPT ![loc[t].pipe].result = loc[t].out]
  /\ At(t, "sync_complete")
  /\ op' = OpRec("store_result", loc[t].pipe, "ok", 0)
  /\ UNCHANGED <<qvars, cur, task_metadata, cache, loc>>
  /\ UNCHANGED <<backend, pool, lru, keygen, agg, tp, tg, sg, clears>>

\* _process_video_sync: self.task_metadata[task_id]["status"] = "completed"
sync_complete(t) ==
  /\ pc[t] = "sync_complete"
  /\ task_metadata' = [task_metadata EXCEPT ![loc[t].pipe].status = PIPE_COMPLETED]
  /\ loc' = [loc EXCEPT ![t] = NoLoc]
  /\ Goto(t, Finished(t), 0)
  /\ op' = OpRec("process_video", loc[t].pipe, "completed", 0)
  /\ UNCHANGED <<qvars, results, cache, pipe_hist>>
  /\ UNCHANGED <<backend, pool, lru, keygen, agg, tp, tg, sg, clears>>

\* ------------------------------------------------------------ stage functions
\* The stages that look their key up in the orchestrator's LRUCache, as if
\* the downloader did too
UsesLru_all(stage) == TRUE

\* The stages that look their key up in the orchestrator's LRUCache:
\* AudioExtractor, TranscriptGenerator and SummaryGenerator are built with
\* cache=self.cache; VideoDownloader has no cache and looks for the file
UsesLru(stage) == stage # DOWNLOAD

\* LRUCache.get as the stage look-ups see it: hits or misses is incremented
\* (the entries themselves are in the variable cache)
Counted(c, stage, hit) ==
  IF ~UsesLru(stage) THEN c
  ELSE IF hit THEN [c EXCEPT !.hits = @ + 1, !.gets = @ + 1]
  ELSE [c EXCEPT !.misses = @ + 1, !.gets = @ + 1]

\* _download_video / _extract_audio / _generate_transcript / _generate_summary:
\* the look-up that precedes the call of the stage's processor
stage_lookup(t) ==
  /\ pc[t] = "stage_lookup"
  /\ IF CacheKey(loc[t].stage, loc[t].input) \in DOMAIN cache
       THEN /\ Return(t, cache[CacheKey(loc[t].stage, loc[t].input)])
            /\ lru' = Counted(lru, loc[t].stage, TRUE)
            /\ op' = OpRec("stage_lookup", loc[t].pipe, "hit", 0)
       ELSE /\ At(t, "stage_call")
            /\ lru' = Counted(lru, loc[t].stage, FALSE)
            /\ op' = OpRec("stage_lookup", loc[t].pipe, "miss", 0)
            /\ UNCHANGED <<loc, pipe_hist>>
  /\ UNCHANGED <<qvars, cur, task_metadata, results, cache>>
  /\ UNCHANGED <<backend, pool, keygen, agg, tp, tg, sg, clears>>

\* the processor is called: extract / generate look the key up once more, the
\* downloader does not; on a miss the back-end (yt-dlp, ffmpeg, Whisper, the
\* chat model) is started
stage_call(t) ==
  /\ pc[t] = "stage_call"
  /\ IF loc[t].stage # DOWNLOAD /\ CacheKey(loc[t].stage, loc[t].input) \in DOMAIN cache
       THEN /\ Return(t, cache[CacheKey(loc[t].stage, loc[t].input)])
            /\ lru' = Counted(lru, loc[t].stage, TRUE)
            /\ op' = OpRec("stage_call", loc[t].pipe, "hit", 0)
       ELSE /\ pipe_hist' = [pipe_hist EXCEPT
                 ![loc[t].pipe].started = @ \cup {loc[t].stage}]
            /\ At(t, "stage_backend")
            /\ lru' = Counted(lru, loc[t].stage, FALSE)
            /\ op' = OpRec("stage_call", loc[t].pipe, "started", 0)
            /\ UNCHANGED loc
  /\ UNCHANGED <<qvars, cur, task_metadata, results, cache>>
  /\ UNCHANGED <<backend, pool, keygen, agg, tp, tg, sg, clears>>

\* the back-end returns its output, which becomes available to later look-ups
stage_backend_ok(t) ==
  /\ pc[t] = "stage_backend"
  /\ BackendSucceeds(loc[t].pipe, loc[t].stage)
  /\ cache' = CachePut(cache, CacheKey(loc[t].stage, loc[t].input),
                       StageOutput(loc[t].stage, loc[t].input))
  /\ Return(t, StageOutput(loc[t].stage, loc[t].input))
  /\ op' = OpRec("stage_backend", loc[t].pipe, "ok", 0)
  /\ UNCHANGED <<qvars, cur, task_metadata, results>>
  /\ UNCHANGED <<backend, pool, lru, keygen, agg, tp, tg, sg, clears>>

\* the back-end fails: DownloadError, ExtractionError, TranscriptionError, ...
stage_backend_fail(t) ==
  /\ pc[t] = "stage_backend"
  /\ BackendFails(loc[t].pipe, loc[t].stage)
  /\ pipe_hist' = [pipe_hist EXCEPT ![loc[t].pipe].failures = @ + 1,
                                    ![loc[t].pipe].failed_stage[loc[t].stage] = @ + 1]
  /\ At(t, OnError(t))
  /\ op' = OpRec("stage_backend", loc[t].pipe, "error", 0)
  /\ UNCHANGED <<qvars, cur, task_metadata, results, cache, loc>>
  /\ UNCHANGED <<backend, pool, lru, keygen, agg, tp, tg, sg, clears>>

\* ------------------------------------------- Orchestrator.process_queue_worker
\* start_queue_workers: thread_pool.submit(worker_id, self.process_queue_worker, i)
start_queue_worker(t) ==
  /\ t \in Workers /\ pc[t] = "off"
  /\ submit(t)
  /\ At(t, "idle")
  /\ op' = OpRec("start_queue_worker", t, "ok", 0)
  /\ UNCHANGED <<qvars, cur, task_metadata, results, cache, loc, pipe_hist, backend, lru, keygen, agg, tp, tg, sg, clears>>

\* task = self.message_queue.dequeue(timeout): the get
w_dequeue_get(t) ==
  /\ t \in Workers /\ pc[t] = "idle"
  /\ mq_get
  /\ Goto(t, "dequeue_lock", ChannelNext(channel).id)
  /\ UNCHANGED ovars

\* the dequeue times out: None, the loop continues
w_dequeue_empty(t) ==
  /\ t \in Workers /\ pc[t] = "idle"
  /\ mq_get_empty
  /\ UNCHANGED <<pc, cur, ovars>>

\* dequeue marks the task RUNNING and returns it; process_queue_task reads
\* parent_task_id and dispatches on task.task_type
w_dequeue_lock(t) ==
  /\ t \in Workers /\ pc[t] = "dequeue_lock"
  /\ mq_running(cur[t])
  /\ loc' = [loc EXCEPT ![t] =
       [NoLoc EXCEPT !.pipe = task[cur[t]].input_data.parent_task_id,
                     !.stage = task[cur[t]].task_type,
                     !.input = task[cur[t]].input_data.data]]
  /\ At(t, "stage_lookup")
  /\ UNCHANGED <<cur, task_metadata, results, cache, pipe_hist>>
  /\ UNCHANGED <<backend, pool, lru, keygen, agg, tp, tg, sg, clears>>

\* _process_download_task / _process_extract_task / _process_transcribe_task:
\* message_queue.enqueue(next type, {parent_task_id, output}), the put
h_enqueue(t) ==
  /\ pc[t] = "h_enqueue"
  /\ nextId <= MaxPipeTasks
  /\ mq_put(NextType(loc[t].stage), Forward(loc[t].pipe, loc[t].out))
  /\ loc' = [loc EXCEPT ![t].new = nextId]
  /\ At(t, "h_register")
  /\ UNCHANGED <<cur, task_metadata, results, cache, pipe_hist>>
  /\ UNCHANGED <<backend, pool, lru, keygen, agg, tp, tg, sg, clears>>

\* the enqueue raises QueueError, which reaches process_queue_task
h_enqueue_full(t) ==
  /\ pc[t] = "h_enqueue"
  /\ mq_put_full
  /\ pipe_hist' = [pipe_hist EXCEPT ![loc[t].pipe].refused = TRUE]
  /\ At(t, "h_failed")
  /\ UNCHANGED <<cur, task_metadata, results, cache, loc>>
  /\ UNCHANGED <<backend, pool, lru, keygen, agg, tp, tg, sg, clears>>

\* message_queue.enqueue, the registration under the lock
h_register(t) ==
  /\ pc[t] = "h_register"
  /\ mq_register(loc[t].new)
  /\ At(t, "h_record")
  /\ UNCHANGED <<cur, ovars>>

\* self.task_metadata[parent_task_id]["queue_tasks"][next] = new id; the
\* subscript raises KeyError while the pipeline has no "queue_tasks" entry
h_record(t) ==
  /\ pc[t] = "h_record"
  /\ IF task_metadata[loc[t].pipe].has_queue_tasks
       THEN /\ task_metadata' = [task_metadata EXCEPT
                 ![loc[t].pipe].queue_tasks[NextType(loc[t].stage)] = loc[t].new]
            /\ At(t, "h_completed")
            /\ op' = OpRec("record", loc[t].new, "ok", 0)
            /\ UNCHANGED pipe_hist
       ELSE /\ pipe_hist' = [pipe_hist EXCEPT ![loc[t].pipe].key_errors = @ + 1]
            /\ At(t, "h_failed")
            /\ op' = OpRec("record", loc[t].new, "KeyError", 0)
            /\ UNCHANGED task_metadata
  /\ UNCHANGED <<qvars, cur, results, cache, loc>>
  /\ UNCHANGED <<backend, pool, lru, keygen, agg, tp, tg, sg, clears>>

\* _process_summarize_task: self.task_metadata[parent]["status"] = "completed"
h_finish(t) ==
  /\ pc[t] = "h_finish"
  /\ task_metadata' = [task_metadata EXCEPT ![loc[t].pipe].status = PIPE_COMPLETED]
  /\ At(t, "h_completed")
  /\ op' = OpRec("finish", loc[t].pipe, "ok", 0)
  /\ UNCHANGED <<qvars, cur, results, cache, loc, pipe_hist>>
  /\ UNCHANGED <<backend, pool, lru, keygen, agg, tp, tg, sg, clears>>

\* process_queue_task: self.message_queue.mark_completed(task.task_id)
h_completed(t) ==
  /\ pc[t] = "h_completed"
  /\ mq_mark_completed(cur[t])
  /\ loc' = [loc EXCEPT ![t] = NoLoc]
  /\ Goto(t, "idle", 0)
  /\ UNCHANGED <<task_metadata, results, cache, pipe_hist>>
  /\ UNCHANGED <<backend, pool, lru, keygen, agg, tp, tg, sg, clears>>

\* process_queue_task, except Exception: mark_failed(task.task_id, str(e))
h_failed(t) ==
  /\ pc[t] = "h_failed"
  /\ \E msg \in ErrorMessages : mq_mark_failed(cur[t], msg)
  /\ loc' = [loc EXCEPT ![t] = NoLoc]
  /\ Goto(t, "idle", 0)
  /\ UNCHANGED <<task_metadata, results, cache, pipe_hist>>
  /\ UNCHANGED <<backend, pool, lru, keygen, agg, tp, tg, sg, clears>>

NextPipeline ==
  \/ \E u \in Urls, q \in BOOLEAN : process_video(Main, u, q)
  \/ pv_enqueue(Main)
  \/ pv_enqueue_full(Main)
  \/ pv_register(Main)
  \/ pv_record(Main)
  \/ pv_failed(Main)
  \/ sync_store(Main)
  \/ sync_complete(Main)
  \/ \E t \in Threads : stage_lookup(t)
  \/ \E t \in Threads : stage_call(t)
  \/ \E t \in Threads : stage_backend_ok(t)
  \/ \E t \in Threads : stage_backend_fail(t)
  \/ \E t \in Workers : start_queue_worker(t)
  \/ \E t \in Workers : w_dequeue_get(t)
  \/ \E t \in Workers : w_dequeue_empty(t)
  \/ \E t \in Workers : w_dequeue_lock(t)
  \/ \E t \in Workers : h_enqueue(t)
  \/ \E t \in Workers : h_enqueue_full(t)
  \/ \E t \in Workers : h_register(t)
  \/ \E t \in Workers : h_record(t)
  \/ \E t \in Workers : h_finish(t)
  \/ \E t \in Workers : h_completed(t)
  \/ \E t \in Workers : h_failed(t)

SpecPipeline == InitPipeline /\ [][NextPipeline]_vars

\* The same orchestrator with a back-end that follows a retry scenario.
RetryScripts ==
  {FailsThenSucceeds(s, k) : s \in TaskType, k \in 1..MaxScriptFailures}
    \cup {AlwaysFails(s) : s \in TaskType}

InitRetry ==
  /\ InitQueue
  /\ max_size \in QueueSizes
  /\ pc = [t \in Threads |-> IF t = Main THEN "idle" ELSE "off"]
  /\ cur = [t \in Threads |-> 0]
  /\ InitOrchestrator(Threads)
  /\ backend \in RetryScripts

SpecRetry == InitRetry /\ [][NextPipeline]_vars

\* --------------------------------------- Orchestrator.process_batch_concurrent
\* The submitting thread calls process_batch_concurrent(video_urls); every
\* URL becomes a job _process_video_isolated on a pool thread of its own
\* (the list is not longer than the pool's max_workers).  A pipeline id is
\* the index of the creation of its metadata.
BatchLists == [BatchThreads -> Urls]

process_batch_concurrent(t, video_urls) ==
  /\ t = Main /\ pc[t] = "idle"
  /\ \A x \in BatchThreads : pc[x] = "off"
  /\ loc' = [x \in DOMAIN loc |->
               IF x \in BatchThreads
                 THEN [NoLoc EXCEPT !.input = Source(video_urls[x])]
                 ELSE loc[x]]
  /\ At(t, "batch_submit")
  /\ op' = OpRec("process_batch_concurrent", 0, "started", 0)
  /\ UNCHANGED <<qvars, cur, task_metadata, results, cache, pipe_hist, backend, pool, lru, keygen, agg, tp, tg, sg, clears>>

\* the loop over video_urls: thread_pool.submit(task_id,
\* self._process_video_isolated, task_id, video_url); after the last URL the
\* caller goes on to thread_pool.wait_all()
batch_submit(t) ==
  /\ pc[Main] = "batch_submit"
  /\ t \in BatchThreads /\ pc[t] = "off"
  /\ \A x \in BatchThreads : x < t => pc[x] # "off"
  /\ submit(t)
  /\ pc' = [pc EXCEPT ![t] = "iso_start",
                      ![Main] = IF \A x \in BatchThreads : x <= t
                                  THEN "wait_all" ELSE "batch_submit"]
  /\ op' = OpRec("submit", t, "ok", 0)
  /\ UNCHANGED <<qvars, cur, task_metadata, results, cache, loc, pipe_hist, backend, lru, keygen, agg, tp, tg, sg, clears>>

\* _process_video_isolated: self.task_metadata[task_id] = {..., "status":
\* "processing", "thread_isolated": True}, then _process_video_sync
isolated_start(t) ==
  /\ t \in BatchThreads /\ pc[t] = "iso_start"
  /\ task_metadata' = Append(task_metadata, NewMetadata(loc[t].input.url))
  /\ pipe_hist' = Append(pipe_hist, NewPipeHist(FALSE))
  /\ loc' = [loc EXCEPT ![t].pipe = Len(task_metadata) + 1, ![t].stage = DOWNLOAD]
  /\ At(t, "stage_lookup")
  /\ op' = OpRec("_process_video_isolated", Len(task_metadata) + 1, "started", 0)
  /\ UNCHANGED <<qvars, cur, results, cache, backend, pool, lru, keygen, agg, tp, tg, sg, clears>>

\* _process_video_isolated, except Exception: status "failed", error str(e);
\* the job returns normally
isolated_failed(t) ==
  /\ t \in BatchThreads /\ pc[t] = "iso_failed"
  /\ task_metadata' = [task_metadata EXCEPT
       ![loc[t].pipe].status = PIPE_FAILED,
       ![loc[t].pipe].error = ErrorText(loc[t].stage)]
  /\ loc' = [loc EXCEPT ![t] = NoLoc]
  /\ At(t, "done")
  /\ op' = OpRec("_process_video_isolated", loc[t].pipe, "failed", 0)
  /\ UNCHANGED <<qvars, cur, results, cache, pipe_hist, backend, pool, lru, keygen, agg, tp, tg, sg, clears>>

\* thread_pool.wait_all(): as_completed over every registered future; then
\* process_batch_concurrent returns the task ids
batch_wait_all(t) ==
  /\ t = Main /\ pc[t] = "wait_all"
  /\ \A x \in pool.futures : pc[x] = "done"
  /\ At(t, "idle")
  /\ op' = OpRec("process_batch_concurrent", 0, "returned", 0)
  /\ UNCHANGED <<qvars, cur, ovars>>

InitBatch ==
  /\ InitQueue
  /\ max_size = QUEUE_MAX_SIZE
  /\ pc = [t \in {Main} \cup BatchThreads |-> IF t = Main THEN "idle" ELSE "off"]
  /\ cur = [t \in {Main} \cup BatchThreads |-> 0]
  /\ InitOrchestrator({Main} \cup BatchThreads)
  /\ backend = AnyBackend

NextBatch ==
  \/ \E l \in BatchLists : process_batch_concurrent(Main, l)
  \/ \E t \in BatchThreads : batch_submit(t)
  \/ \E t \in BatchThreads : isolated_start(t)
  \/ \E t \in BatchThreads : stage_lookup(t)
  \/ \E t \in BatchThreads : stage_call(t)
  \/ \E t \in BatchThreads : stage_backend_ok(t)
  \/ \E t \in BatchThreads : stage_backend_fail(t)
  \/ \E t \in BatchThreads : sync_store(t)
  \/ \E t \in BatchThreads : sync_complete(t)
  \/ \E t \in BatchThreads : isolated_failed(t)
  \/ batch_wait_all(Main)

SpecBatch == InitBatch /\ [][NextBatch]_vars


\* ================================================================= LRUCache
\* Every method body runs under self.lock, so a call is one step whichever
\* thread makes it, and concurrent calls are interleavings of these steps.
nonlru ==
  <<qvars, pc, cur, task_metadata, results, cache, loc, pipe_hist, backend, pool,
    keygen, agg, tp, tg, sg, clears>>

\* key in self.cache
Has(c, key) == \E i \in 1..Len(c.cache) : c.cache[i].key = key

\* self.cache[key]
EntryOf(c, key) == c.cache[CHOOSE i \in 1..Len(c.cache) : c.cache[i].key = key]

\* del self.cache[key]
Without(c, key) == SelectSeq(c.cache, LAMBDA e : e.key # key)

\* LRUCache._is_expired(timestamp)
IsExpired_never(c, timestamp) == FALSE
IsExpired_ge(c, timestamp) == c.ttl # NoTtl /\ c.now - timestamp >= c.ttl
IsExpired(c, timestamp) == c.ttl # NoTtl /\ c.now - timestamp > c.ttl

\* the test that precedes the eviction in set
CacheFull_gt(entries, n) == Len(entries) > n
CacheFull(entries, n) == Len(entries) >= n

\* LRUCache.size
size(c) == Len(c.cache)

\* self.cache.move_to_end(key)
Promote_stay(c, key) == c.cache
Promote(c, key) == Append(Without(c, key), EntryOf(c, key))

\* the tuple stored by set: (value, time.time())
Stored_novalue(key, value, now) == [key |-> key, value |-> 0, timestamp |-> now]
Stored(key, value, now) == [key |-> key, value |-> value, timestamp |-> now]

\* ---- the history of the calls, kept by the rules of the cache's contract
Drop(keys, key) == SelectSeq(keys, LAMBDA k : k # key)

Touch(keys, key) == Append(Drop(keys, key), key)

\* the set of key in force has outlived the ttl
Outlived(c, key) == c.ttl # NoTtl /\ c.now - c.sets[key].time > c.ttl

\* a get: a key in force and within its ttl becomes the most recent one, a
\* key in force beyond its ttl is no longer in force
HistGet(c, key) ==
  IF c.sets[key] = NoSet THEN [c EXCEPT !.gets = @ + 1]
  ELSE IF Outlived(c, key)
    THEN [c EXCEPT !.gets = @ + 1, !.recent = Drop(@, key), !.sets[key] = NoSet]
    ELSE [c EXCEPT !.gets = @ + 1, !.recent = Touch(@, key)]

\* a set: the key becomes the most recent one; a new key on a cache with
\* max_size keys in force ends the set of the least recent key
HistSet(c, key, value) ==
  IF c.sets[key] = NoSet /\ Len(c.recent) >= c.max_size
    THEN [c EXCEPT !.recent = Append(Tail(@), key),
                   !.sets = [@ EXCEPT ![Head(c.recent)] = NoSet,
                                      ![key] = [value |-> value, time |-> c.now]]]
    ELSE [c EXCEPT !.recent = Touch(@, key),
                   !.sets[key] = [value |-> value, time |-> c.now]]

HistDelete(c, key) == [c EXCEPT !.recent = Drop(@, key), !.sets[key] = NoSet]

HistClear(c) ==
  [c EXCEPT !.gets = 0, !.recent = <<>>, !.sets = [k \in CacheKeys |-> NoSet]]

\* LRUCache.get(key)
cache_get(key) ==
  /\ lru.hits + lru.misses < MaxGets
  /\ lru.gets < MaxGets
  /\ IF ~Has(lru, key)
       THEN /\ lru' = [HistGet(lru, key) EXCEPT !.misses = @ + 1]
            /\ op' = OpRec("get", key, "miss", 0)
       ELSE IF IsExpired(lru, EntryOf(lru, key).timestamp)
              THEN /\ lru' = [HistGet(lru, key) EXCEPT
                        !.cache = Without(lru, key), !.misses = @ + 1]
                   /\ op' = OpRec("get", key, "expired", 0)
              ELSE /\ lru' = [HistGet(lru, key) EXCEPT
                        !.cache = Promote(lru, key), !.hits = @ + 1]
                   /\ op' = OpRec("get", key, "hit", EntryOf(lru, key).value)
  /\ UNCHANGED nonlru

\* LRUCache.set(key, value)
cache_set(key, value) ==
  LET kept == IF Has(lru, key) THEN Without(lru, key) ELSE lru.cache
      evict == CacheFull(kept, lru.max_size)
      room == IF evict THEN Tail(kept) ELSE kept
  IN  /\ lru' = [HistSet(lru, key, value) EXCEPT
                    !.cache = Append(room, Stored(key, value, lru.now))]
      /\ op' = OpRec("set", key, IF evict THEN "evicted" ELSE "ok", value)
      /\ UNCHANGED nonlru

\* LRUCache.delete(key)
cache_delete(key) ==
  /\ IF Has(lru, key)
       THEN /\ lru' = [HistDelete(lru, key) EXCEPT !.cache = Without(lru, key)]
            /\ op' = OpRec("delete", key, "true", 0)
       ELSE /\ lru' = HistDelete(lru, key)
            /\ op' = OpRec("delete", key, "false", 0)
  /\ UNCHANGED nonlru

\* LRUCache.clear()
cache_clear ==
  /\ lru' = [HistClear(lru) EXCEPT !.cache = <<>>, !.hits = 0, !.misses = 0]
  /\ op' = OpRec("clear", 0, "ok", 0)
  /\ UNCHANGED nonlru

\* time passes
cache_tick ==
  /\ lru.now < MaxTime
  /\ lru' = [lru EXCEPT !.now = @ + 1]
  /\ op' = OpRec("tick", 0, "ok", 0)
  /\ UNCHANGED nonlru

InitCache ==
  /\ InitQueue
  /\ max_size = QUEUE_MAX_SIZE
  /\ pc = [t \in {Main} |-> "idle"]
  /\ cur = [t \in {Main} |-> 0]
  /\ task_metadata = <<>>
  /\ results = {}
  /\ cache = EmptyCache
  /\ loc = [t \in {Main} |-> NoLoc]
  /\ pipe_hist = <<>>
  /\ pool = NewPool
  /\ backend = AnyBackend
  /\ \E n \in 1..MaxCacheSize, ttl \in {NoTtl} \cup (0..MaxTtl) : lru = NewCache(n, ttl)
  /\ keygen = NoKeys
  /\ agg = NewAggregator(NoEntries, NoEntries, {})
  /\ tp = NewThreadPool(THREAD_POOL_SIZE)
  /\ tg = NewTranscriptGenerator
  /\ sg = NoSummaries
  /\ clears = NoClears

NextCache ==
  \/ \E key \in CacheKeys : cache_get(key)
  \/ \E key \in CacheKeys, value \in CacheValues : cache_set(key, value)
  \/ \E key \in CacheKeys : cache_delete(key)
  \/ cache_clear
  \/ cache_tick

SpecCache == InitCache /\ [][NextCache]_vars

\* ------------------------------------------------------ Orchestrator.shutdown
\* MessageQueue.clear: under the lock, drain the channel, empty the side
\* table, reset the counters
mq_clear ==
  /\ channel' = <<>>
  /\ tasks' = {}
  /\ completed_count' = 0
  /\ failed_count' = 0
  /\ UNCHANGED <<max_size, task, nextId, pushed, delivered, hist>>

\* shutdown -> ThreadPool.shutdown(wait=True) -> executor.shutdown(wait=True):
\* the executor stops accepting jobs and the caller starts joining its threads
shutdown_call(t) ==
  /\ t = Main /\ pc[t] = "idle"
  /\ ~pool.is_shutdown
  /\ pool' = [pool EXCEPT !.executor_shutdown = TRUE]
  /\ At(t, "shutdown_join")
  /\ op' = OpRec("shutdown", 0, "started", 0)
  /\ UNCHANGED <<qvars, cur, task_metadata, results, cache, loc, pipe_hist, backend, lru, keygen, agg, tp, tg, sg, clears>>

\* executor.shutdown(wait=True) returns once every submitted job has
\* returned; then self.is_shutdown = True
shutdown_join(t) ==
  /\ t = Main /\ pc[t] = "shutdown_join"
  /\ \A x \in pool.futures : pc[x] = "done"
  /\ pool' = [pool EXCEPT !.is_shutdown = TRUE]
  /\ At(t, "shutdown_clear")
  /\ op' = OpRec("shutdown", 0, "joined", 0)
  /\ UNCHANGED <<qvars, cur, task_metadata, results, cache, loc, pipe_hist, backend, lru, keygen, agg, tp, tg, sg, clears>>

\* self.message_queue.clear(); shutdown returns.  The orchestrator is not
\* used after its shutdown.
shutdown_clear(t) ==
  /\ t = Main /\ pc[t] = "shutdown_clear"
  /\ mq_clear
  /\ At(t, "closed")
  /\ op' = OpRec("shutdown", 0, "returned", 0)
  /\ UNCHANGED <<cur, ovars>>

\* A back-end that never fails
NeverFails == [stage |-> "none", fails |-> 0, always |-> FALSE]

InitShutdown ==
  /\ InitQueue
  /\ max_size = QUEUE_MAX_SIZE
  /\ pc = [t \in Threads |-> IF t = Main THEN "idle" ELSE "off"]
  /\ cur = [t \in Threads |-> 0]
  /\ InitOrchestrator(Threads)
  /\ backend = NeverFails

\* the steps of the submitting thread and of a queue worker
MainStep ==
  \/ \E u \in Urls : process_video(Main, u, TRUE)
  \/ pv_enqueue(Main)
  \/ pv_register(Main)
  \/ pv_record(Main)
  \/ \E t \in Workers : start_queue_worker(t)
  \/ shutdown_call(Main)
  \/ shutdown_join(Main)
  \/ shutdown_clear(Main)

WorkerStep(t) ==
  \/ w_dequeue_get(t)
  \/ w_dequeue_empty(t)
  \/ w_dequeue_lock(t)
  \/ stage_lookup(t)
  \/ stage_call(t)
  \/ stage_backend_ok(t)
  \/ h_enqueue(t)
  \/ h_register(t)
  \/ h_record(t)
  \/ h_finish(t)
  \/ h_completed(t)
  \/ h_failed(t)

NextShutdown ==
  \/ MainStep
  \/ \E t \in Workers : WorkerStep(t)

\* every thread that can take a step eventually takes one
SpecShutdown ==
  /\ InitShutdown /\ [][NextShutdown]_vars
  /\ WF_vars(MainStep)
  /\ \A t \in Workers : WF_vars(WorkerStep(t))

\* ======================================================== queue properties
InCh(ch, id) == \E i \in 1..Len(ch) : ch[i].id = id

BeingDequeued(id) == \E t \in DOMAIN pc : pc[t] = "dequeue_lock" /\ cur[t] = id

C2_AttemptsBounded ==
  \A id \in Minted :
    /\ hist[id].deq <= task[id].max_retries + 1
    /\ (hist[id].answered /\ hist[id].fail = task[id].max_retries + 1) =>
         /\ task[id].status = FAILED
         /\ task[id].retry_count = task[id].max_retries + 1
         /\ ~InCh(channel, id)
         /\ ~BeingDequeued(id)

\* C2 witness: a task dequeued R+1 times, each dequeue answered by mark_failed.
C2_Witness ==
  \E id \in Minted :
    /\ hist[id].answered
    /\ hist[id].deq = task[id].max_retries + 1
    /\ hist[id].fail = task[id].max_retries + 1
    /\ task[id].status = FAILED

\* C3: FIFO. The k-th get from the channel delivers the entry of the k-th put,
\* and the entries waiting in the channel are in the order they were put.
C3_Fifo ==
  /\ (op.name = "dequeue_get") => op.seq = delivered
  /\ \A i \in 1..Len(channel) : channel[i].seq = delivered + i

\* C3 witness: a task was delivered while a later one was waiting behind it.
C3_Witness ==
  /\ op.name = "dequeue_get"
  /\ Len(channel) >= 1
  /\ channel[1].id # op.task_id

\* C4 (as claimed): every status change is PENDING -> RUNNING by dequeue,
\* RUNNING -> COMPLETED by mark_completed, or RUNNING -> FAILED / RUNNING ->
\* PENDING (retry_count incremented) by mark_failed.
C4_TransitionDag ==
  [][\A id \in Minted :
       task'[id].status # task[id].status =>
         \/ /\ task[id].status = PENDING /\ task'[id].status = RUNNING
            /\ op'.name = "dequeue"
         \/ /\ task[id].status = RUNNING /\ task'[id].status = COMPLETED
            /\ op'.name = "mark_completed"
         \/ /\ task[id].status = RUNNING /\ task'[id].status = FAILED
            /\ op'.name = "mark_failed"
         \/ /\ task[id].status = RUNNING /\ task'[id].status = PENDING
            /\ op'.name = "mark_failed"
            /\ task'[id].retry_count = task[id].retry_count + 1]_vars

\* C5 (as claimed): every task has retry_count <= max_retries + 1.
C5_RetryCountBound ==
  \A id \in Minted : task[id].retry_count <= task[id].max_retries + 1

\* C6 (as claimed): a FAILED task whose retry_count exceeds max_retries keeps
\* its status and is not put back into the channel.
C6_FailedTerminal ==
  [][\A id \in Minted :
       (task[id].status = FAILED /\ task[id].retry_count > task[id].max_retries) =>
         /\ task'[id].status = FAILED
         /\ (InCh(channel', id) => InCh(channel, id))]_vars

\* C7 (as claimed): every task in the channel is PENDING or RUNNING.
C7_ChannelStatus ==
  \A i \in 1..Len(channel) : task[channel[i].id].status \in {PENDING, RUNNING}

\* C8: the channel never holds more than max_size entries, and an enqueue that
\* meets a channel at capacity ends in QueueError, leaving the channel, the
\* side table, the tasks and the counters as they were.
C8_Capacity ==
  /\ [](Len(channel) <= max_size)
  /\ [][(op'.name = "enqueue_put" /\ Len(channel) >= max_size) =>
          /\ op'.result = "QueueError"
          /\ UNCHANGED <<channel, tasks, task, completed_count, failed_count>>]_vars

\* C8 witness: an enqueue was refused on a channel holding max_size entries.
C8_Witness ==
  /\ op.name = "enqueue_put" /\ op.result = "QueueError"
  /\ Len(channel) = max_size

\* ====================================================== pipeline properties
PrevType(stage) ==
  CASE stage = SUMMARIZE -> TRANSCRIBE
    [] stage = TRANSCRIBE -> EXTRACT
    [] OTHER -> DOWNLOAD

TasksOf(p, ty) ==
  {id \in Minted : task[id].task_type = ty /\ task[id].input_data.parent_task_id = p}

\* C9: within a pipeline, sync or queue mode, a stage's back-end is started
\* only after the previous stage of that pipeline produced its output, and it
\* is started on that output.
C9_StageOrder ==
  /\ \A p \in Pipelines : \A s \in pipe_hist[p].started :
       s # DOWNLOAD => pipe_hist[p].produced[PrevType(s)] # NoArtifact
  /\ \A t \in DOMAIN pc :
       (pc[t] = "stage_backend" /\ loc[t].stage # DOWNLOAD) =>
          loc[t].input = pipe_hist[loc[t].pipe].produced[PrevType(loc[t].stage)]

\* C9 witness: a queue-mode pipeline and a synchronous pipeline each had the
\* back-ends of all four stages started.
C9_Witness ==
  /\ \E p \in Pipelines : pipe_hist[p].use_queue /\ pipe_hist[p].started = TaskType
  /\ \E p \in Pipelines : ~pipe_hist[p].use_queue /\ pipe_hist[p].started = TaskType

\* C10 (as claimed, the part that must hold in every state on the way): with
\* the default queue size and a worker running, for a queue-mode pipeline none
\* of whose back-ends failed there is at most one queue task of each type,
\* none of them is FAILED, each task's input is the previous stage's output,
\* and once the metadata says completed there is exactly one task of each type.
C10_QueueModeSuccess ==
  \A p \in Pipelines :
    (/\ max_size = QUEUE_MAX_SIZE
     /\ pipe_hist[p].use_queue
     /\ pipe_hist[p].failures = 0 /\ ~pipe_hist[p].refused) =>
      /\ \A ty \in TaskType : Cardinality(TasksOf(p, ty)) <= 1
      /\ \A ty \in TaskType : \A id \in TasksOf(p, ty) :
           /\ task[id].status # FAILED
           /\ task[id].input_data.data =
                IF ty = DOWNLOAD THEN Source(task_metadata[p].video_url)
                ELSE pipe_hist[p].produced[PrevType(ty)]
      /\ task_metadata[p].status = PIPE_COMPLETED =>
           \A ty \in TaskType : Cardinality(TasksOf(p, ty)) = 1

\* ========================================================= retry scenarios
\* the back-end of the scripted stage has failed its k times in pipeline p
ScriptedFailuresDone(p) ==
  /\ backend.stage \in TaskType /\ ~backend.always
  /\ pipe_hist[p].failed_stage[backend.stage] = backend.fails

\* C11 (as claimed): in a queue-mode pipeline whose stage back-end fails k
\* times and then succeeds (default queue size), the stage's task is dequeued
\* k+1 times, never more, and ends COMPLETED, not FAILED; every other stage
\* has one task, dequeued once.
C11_RetryThenSuccess ==
  \A p \in Pipelines :
    (/\ max_size = QUEUE_MAX_SIZE
     /\ pipe_hist[p].use_queue
     /\ ScriptedFailuresDone(p)) =>
      \A ty \in TaskType :
        /\ Cardinality(TasksOf(p, ty)) <= 1
        /\ \A id \in TasksOf(p, ty) :
             /\ hist[id].deq <= pipe_hist[p].failed_stage[ty] + 1
             /\ task[id].status # FAILED
             /\ task[id].status = COMPLETED =>
                  hist[id].deq = pipe_hist[p].failed_stage[ty] + 1

StageIndex(stage) ==
  CASE stage = DOWNLOAD -> 1
    [] stage = EXTRACT -> 2
    [] stage = TRANSCRIBE -> 3
    [] OTHER -> 4

LaterTypes(s) == {ty \in TaskType : StageIndex(ty) > StageIndex(s)}

\* what C12 says of a queue-mode pipeline p in which the back-end of stage s
\* fails every time: the tasks of stage s never complete, are dequeued at
\* most max_retries + 1 times and exactly that often once FAILED; no task of
\* a later stage exists; the metadata status is still "processing".
Exhaustion(p, s) ==
  /\ \A id \in TasksOf(p, s) :
       /\ task[id].status # COMPLETED
       /\ hist[id].deq <= task[id].max_retries + 1
       /\ task[id].status = FAILED => hist[id].deq = task[id].max_retries + 1
  /\ \A ty \in LaterTypes(s) : TasksOf(p, ty) = {}
  /\ task_metadata[p].status = PROCESSING

\* the claim's case: stage s always fails and has been run in pipeline p
ExhaustionCase(p) ==
  /\ pipe_hist[p].use_queue
  /\ backend.stage \in TaskType /\ backend.always
  /\ pipe_hist[p].failed_stage[backend.stage] >= 1

\* C12 (as claimed): retry exhaustion for any queue size.
C12_RetryExhaustion_claimed ==
  \A p \in Pipelines : ExhaustionCase(p) => Exhaustion(p, backend.stage)

\* C12 (amended): retry exhaustion when the channel never fills (the default
\* queue size): the failing stage's task is dequeued max_retries + 1 times and
\* ends FAILED, no later stage is enqueued, the status stays "processing".
C12_RetryExhaustion ==
  \A p \in Pipelines :
    (max_size = QUEUE_MAX_SIZE /\ ExhaustionCase(p)) => Exhaustion(p, backend.stage)

\* C12 witness: a task of the always-failing stage ended FAILED after
\* max_retries + 1 dequeues, on a queue of the default size.
C12_Witness ==
  \E p \in Pipelines :
    /\ max_size = QUEUE_MAX_SIZE /\ ExhaustionCase(p)
    /\ \E id \in TasksOf(p, backend.stage) :
         /\ task[id].status = FAILED
         /\ hist[id].deq = task[id].max_retries + 1

\* ======================================================= pipeline metadata
\* thread t is the SUMMARIZE handler of pipeline p executing the assignment
\* task_metadata[parent_task_id]["status"] = "completed"
SummarizeHandlerFinishes(t, p) ==
  /\ pc[t] = "h_finish" /\ pc'[t] = "h_completed"
  /\ loc[t].pipe = p
  /\ task[cur[t]].task_type = SUMMARIZE
  /\ task[cur[t]].input_data.parent_task_id = p

\* C13: a pipeline's metadata status changes only from "processing", and only
\* to "completed" or "failed"; in queue mode "completed" is written only by
\* the SUMMARIZE handler of that pipeline.
C13_StatusTransitions ==
  [][\A p \in Pipelines :
       task_metadata'[p].status # task_metadata[p].status =>
         /\ task_metadata[p].status = PROCESSING
         /\ task_metadata'[p].status \in {PIPE_COMPLETED, PIPE_FAILED}
         /\ (pipe_hist[p].use_queue /\ task_metadata'[p].status = PIPE_COMPLETED) =>
              \E t \in Workers : SummarizeHandlerFinishes(t, p)]_vars

\* C13 witness: a queue-mode pipeline was completed by its SUMMARIZE handler
\* and another pipeline has failed.
C13_Witness ==
  /\ op.name = "finish"
  /\ \E p \in Pipelines :
       pipe_hist[p].use_queue /\ task_metadata[p].status = PIPE_COMPLETED
  /\ \E p \in Pipelines : task_metadata[p].status = PIPE_FAILED

\* ------------------------------------------------ synchronous mode, a stage raises
\* the calling thread is still inside process_video for pipeline p
InProcessVideo(p) == \E t \in DOMAIN loc : t \notin Workers /\ loc[t].pipe = p

\* C14: in synchronous mode, when a stage raises: no later stage is invoked,
\* no result is stored, and process_video ends by raising
\* VideoProcessingError with the metadata status "failed" and the error text.
C14_SyncFailure ==
  /\ [](\A p \in Pipelines : \A s \in TaskType :
         (~pipe_hist[p].use_queue /\ pipe_hist[p].failed_stage[s] >= 1) =>
           /\ p \notin results
           /\ pipe_hist[p].produced[s] = NoArtifact
           /\ \A ty \in LaterTypes(s) :
                /\ ty \notin pipe_hist[p].started
                /\ pipe_hist[p].produced[ty] = NoArtifact
           /\ ~InProcessVideo(p) =>
                /\ task_metadata[p].status = PIPE_FAILED
                /\ task_metadata[p].error = ErrorText(s))
  /\ [][\A t \in DOMAIN pc :
          (pc[t] = "pv_failed" /\ pc'[t] # "pv_failed") =>
            /\ op'.name = "process_video" /\ op'.result = "VideoProcessingError"
            /\ op'.task_id = loc[t].pipe]_vars

\* C14 witness: process_video has raised for a synchronous pipeline, one of
\* whose stages failed after an earlier stage had produced its output.
C14_Witness ==
  /\ op.name = "process_video" /\ op.result = "VideoProcessingError"
  /\ ~pipe_hist[op.task_id].use_queue
  /\ pipe_hist[op.task_id].failed_stage[TRANSCRIBE] = 1
  /\ task_metadata[op.task_id].status = PIPE_FAILED

\* get_result(task_id): self.results.get(task_id); FALSE stands for None
get_result(p) == p \in results

\* C15 (as claimed): whenever a pipeline's metadata status is "completed", in
\* either mode, a result is stored for it and get_result returns it.
C15_CompletedHasResult ==
  \A p \in Pipelines : task_metadata[p].status = PIPE_COMPLETED => get_result(p)

\* the back-end of stage s was started for pipeline p, and no back-end
\* invocation of p has failed
StartedCleanly(p, s) == s \in pipe_hist[p].started /\ pipe_hist[p].failures = 0

\* C16 (as claimed): for every stage input the back-end is executed at most
\* once, also when several pipelines process the same input at the same
\* time: two pipelines on the same URL, none of whose back-end invocations
\* failed, never both start the back-end of the same stage.
C16_AtMostOnce ==
  \A p1 \in Pipelines, p2 \in Pipelines : \A s \in TaskType :
    (/\ task_metadata[p1].video_url = task_metadata[p2].video_url
     /\ StartedCleanly(p1, s) /\ StartedCleanly(p2, s)) => p1 = p2

\* the cache key of the stage input thread t has in hand
KeyOf(t) == CacheKey(loc[t].stage, loc[t].input)

\* thread t leaves the entry of its stage's processor (extract / generate /
\* download) in this step
Executes(t) == pc[t] = "stage_call" /\ pc'[t] # "stage_call"

\* C17 (as claimed): when a stage's processor is executed for an input whose
\* entry is present (an earlier execution succeeded), it returns the stored
\* output of that execution without starting the back-end; when it is executed
\* with no entry present it starts the back-end; and a failing back-end call
\* writes nothing to the cache.
C17_StageCacheProtocol ==
  /\ [][\A t \in DOMAIN pc : (Executes(t) /\ KeyOf(t) \in DOMAIN cache) =>
           /\ pc'[t] # "stage_backend"
           /\ pipe_hist'[loc[t].pipe].started = pipe_hist[loc[t].pipe].started
           /\ pipe_hist'[loc[t].pipe].produced[loc[t].stage] = cache[KeyOf(t)]]_vars
  /\ [][\A t \in DOMAIN pc : (Executes(t) /\ KeyOf(t) \notin DOMAIN cache) =>
           pc'[t] = "stage_backend"]_vars
  /\ [][\A t \in DOMAIN pc : (pc[t] = "stage_backend" /\ pc'[t] = OnError(t)) =>
           cache' = cache]_vars

\* no thread is working on pipeline p (any more)
JobDone(p) == \A t \in DOMAIN loc : loc[t].pipe # p

\* the artifact stage s yields from the URL of pipeline p
OwnArtifact(p, s) == [kind |-> s, url |-> task_metadata[p].video_url]

\* C18: in process_batch_concurrent a pipeline's metadata becomes failed only
\* if one of its own back-end calls failed; every artifact of a pipeline
\* comes from its own URL; a job that has returned without a failure of its
\* own left status completed and a stored result made of all four artifacts
\* of its own URL, whatever happened to the other jobs; a job with a failure
\* left status failed and no result; and the call returns only after every
\* job has returned.
C18_BatchIsolation ==
  /\ \A p \in Pipelines :
       /\ task_metadata[p].status = PIPE_FAILED => pipe_hist[p].failures >= 1
       /\ \A s \in TaskType :
            pipe_hist[p].produced[s] \in {NoArtifact, OwnArtifact(p, s)}
       /\ JobDone(p) =>
            IF pipe_hist[p].failures = 0
              THEN /\ task_metadata[p].status = PIPE_COMPLETED
                   /\ get_result(p)
                   /\ pipe_hist[p].result = OwnArtifact(p, SUMMARIZE)
                   /\ \A s \in TaskType : pipe_hist[p].produced[s] = OwnArtifact(p, s)
              ELSE /\ task_metadata[p].status = PIPE_FAILED
                   /\ ~get_result(p)
  /\ (op.name = "process_batch_concurrent" /\ op.result = "returned") =>
       /\ Len(task_metadata) = BatchSize
       /\ \A p \in Pipelines : JobDone(p)

\* C18 witness: the batch call has returned; one pipeline failed in its
\* TRANSCRIBE stage and another one is completed with its result stored.
C18_Witness ==
  /\ op.name = "process_batch_concurrent" /\ op.result = "returned"
  /\ \E p \in Pipelines, q \in Pipelines :
       /\ pipe_hist[p].failed_stage[TRANSCRIBE] = 1
       /\ task_metadata[p].status = PIPE_FAILED
       /\ task_metadata[q].status = PIPE_COMPLETED /\ get_result(q)
       /\ pipe_hist[q].result = OwnArtifact(q, SUMMARIZE)

\* shutdown() has returned: the pool is shut down and the queue is empty
ShutdownReturned ==
  /\ pc[Main] = "closed"
  /\ pool.is_shutdown
  /\ channel = <<>> /\ tasks = {}

\* C19 (as claimed): a call of Orchestrator.shutdown() eventually returns,
\* with the pool shut down and the queue empty, also when queue workers were
\* started before the call.
C19_ShutdownReturns == (pc[Main] = "shutdown_join") ~> ShutdownReturned

\* C20: after every sequence of get, set, delete and clear calls, from any
\* threads, the cache holds no key twice and 0 <= size <= max_size.
C20_SizeInvariant ==
  /\ 0 <= size(lru) /\ size(lru) <= lru.max_size
  /\ \A i \in 1..Len(lru.cache), j \in 1..Len(lru.cache) :
       lru.cache[i].key = lru.cache[j].key => i = j

\* C20 witness: a set on a cache holding max_size >= 2 entries evicted one,
\* and the cache again holds max_size entries.
C20_Witness ==
  /\ op.name = "set" /\ op.result = "evicted"
  /\ lru.max_size >= 2 /\ size(lru) = lru.max_size

\* the keys of the OrderedDict, in its order, and as a set
KeyOrder(c) == [i \in 1..Len(c.cache) |-> c.cache[i].key]

Keys(c) == {c.cache[i].key : i \in 1..Len(c.cache)}

\* the entries of the keys in ks are the same before and after the step
SameEntries(ks) == \A k \in ks : Has(lru', k) /\ EntryOf(lru', k) = EntryOf(lru, k)

\* C21: the entries are ordered by their last successful get or set; a set
\* of an absent key on a cache holding max_size entries removes exactly the
\* least recently used entry and leaves every other entry as it was; any
\* other set removes no entry and leaves every other entry as it was.
C21_EvictsLeastRecent ==
  /\ [](KeyOrder(lru) = lru.recent)
  /\ [][op'.name = "set" =>
          IF op'.task_id \notin Keys(lru) /\ size(lru) = lru.max_size
            THEN /\ Keys(lru') = (Keys(lru) \ {Head(lru.recent)}) \cup {op'.task_id}
                 /\ SameEntries(Keys(lru) \ {Head(lru.recent)})
            ELSE /\ Keys(lru') = Keys(lru) \cup {op'.task_id}
                 /\ SameEntries(Keys(lru) \ {op'.task_id})]_vars

\* C21 witness: after at least one get hit, a set of a new key on a cache
\* holding max_size = 3 entries has evicted one, and the oldest insertion
\* (key 1, set at time 0) is still there, behind a younger entry.
C21_Witness ==
  /\ op.name = "set" /\ op.result = "evicted"
  /\ lru.max_size = 3 /\ size(lru) = 3
  /\ lru.hits >= 1
  /\ lru.cache[2].key = 1 /\ lru.cache[2].timestamp = 0
  /\ lru.cache[1].timestamp >= 1

\* the set of key is in force: since its most recent set the key was not
\* deleted, cleared, evicted by capacity or found expired
InForce(c, key) == c.sets[key] # NoSet

\* C22: while a set of K is in force, K is in the cache with the value of
\* its most recent set, and every get(K) made within the ttl returns that
\* value, however often it is repeated.
C22_GetReturnsLastSet ==
  /\ [](\A k \in CacheKeys : InForce(lru, k) =>
           Has(lru, k) /\ EntryOf(lru, k).value = lru.sets[k].value)
  /\ [][(op'.name = "get" /\ InForce(lru, op'.task_id) /\ ~Outlived(lru, op'.task_id)) =>
          /\ op'.result = "hit" /\ op'.seq = lru.sets[op'.task_id].value
          /\ InForce(lru', op'.task_id)
          /\ lru'.sets[op'.task_id] = lru.sets[op'.task_id]]_vars

\* C22 witness: with ttl or without, a repeated get hit on the only entry
\* returns 2, the value of the key's most recent set (made at time 1).
C22_Witness ==
  /\ op.name = "get" /\ op.result = "hit" /\ op.seq = 2
  /\ lru.hits >= 2 /\ lru.misses = 0
  /\ lru.sets[op.task_id] = [value |-> 2, time |-> 1]
  /\ size(lru) = 1

\* C23: hits + misses is the number of get calls since creation or the last
\* clear; a get adds one to hits when the key's set is in force and within
\* the ttl and one to misses otherwise, never to both; clear resets both to
\* 0; set, delete and the passing of time change neither.
C23_HitsAndMisses ==
  /\ [](lru.hits + lru.misses = lru.gets)
  /\ [][op'.name = "get" =>
          IF InForce(lru, op'.task_id) /\ ~Outlived(lru, op'.task_id)
            THEN lru'.hits = lru.hits + 1 /\ lru'.misses = lru.misses
            ELSE lru'.hits = lru.hits /\ lru'.misses = lru.misses + 1]_vars
  /\ [][op'.name = "clear" => lru'.hits = 0 /\ lru'.misses = 0]_vars
  /\ [][op'.name \in {"set", "delete", "tick"} =>
          lru'.hits = lru.hits /\ lru'.misses = lru.misses]_vars

\* C23 witness: three gets since the last clear, one a hit and two misses,
\* the last one on an expired entry.
C23_Witness ==
  /\ lru.gets = 3 /\ lru.hits = 1 /\ lru.misses = 2
  /\ op.name = "get" /\ op.result = "expired"
  /\ size(lru) >= 1

\* C24: an entry keeps the time t0 of its key's most recent set, which a get
\* hit does not move; a get of a key whose set is in force returns the value
\* iff there is no ttl or now - t0 <= ttl, and otherwise removes the entry,
\* counts a miss and returns not found.
C24_TtlExpiry ==
  /\ [](\A k \in CacheKeys : InForce(lru, k) =>
           Has(lru, k) /\ EntryOf(lru, k).timestamp = lru.sets[k].time)
  /\ [][(op'.name = "get" /\ InForce(lru, op'.task_id)) =>
          IF lru.ttl = NoTtl \/ lru.now - lru.sets[op'.task_id].time <= lru.ttl
            THEN /\ op'.result = "hit" /\ op'.seq = lru.sets[op'.task_id].value
                 /\ Has(lru', op'.task_id)
                 /\ EntryOf(lru', op'.task_id).timestamp = lru.sets[op'.task_id].time
            ELSE /\ op'.result = "expired"
                 /\ ~Has(lru', op'.task_id)
                 /\ lru'.misses = lru.misses + 1 /\ lru'.hits = lru.hits]_vars

\* C24 witness: with ttl 1, a get at time 2 found its entry expired after an
\* earlier get on this cache of one entry had been a hit.
C24_Witness ==
  /\ op.name = "get" /\ op.result = "expired"
  /\ lru.ttl = 1 /\ lru.now = 2 /\ lru.max_size = 1
  /\ lru.hits = 1 /\ lru.misses = 1
  /\ size(lru) = 0

\* ------------------------------------------------------------ CacheKeyGenerator
\* Strings are non-empty sequences of characters; the alphabet has a letter
\* and the colon the derivations use as separator.
MaxStrLen == 3

Chars == {"a", ":"}

RECURSIVE StringsOf(_)
StringsOf(n) ==
  IF n = 0 THEN {<<>>}
  ELSE LET shorter == StringsOf(n - 1)
       IN shorter \cup {Append(s, c) : s \in {x \in shorter : Len(x) = n - 1}, c \in Chars}

Strings == StringsOf(MaxStrLen) \ {<<>>}

\* hashlib.md5(s.encode()).hexdigest(): a digest of the canonical form, equal
\* for equal forms; within the strings considered here no two forms share a
\* digest, so the digest is represented by the form it was taken of
Md5(s) == [md5 |-> s]

\* f"download:{url}"
DownloadForm(url) == <<"download", ":">> \o url

\* f"extract:{video_path}"
ExtractForm(video_path) == <<"extract", ":">> \o video_path

\* f"transcript:{audio_path}"
TranscriptForm(audio_path) == <<"transcript", ":">> \o audio_path

\* f"summary:{transcript}:{model}"
SummaryForm(transcript, model) == <<"summary", ":">> \o transcript \o <<":">> \o model

generate_download_key(url) == Md5(DownloadForm(url))

generate_extract_key(video_path) == Md5(ExtractForm(video_path))

generate_transcript_key(audio_path) == Md5(TranscriptForm(audio_path))

generate_summary_key(transcript, model) == Md5(SummaryForm(transcript, model))

\* two calls of one derivation, on the inputs keygen.a and keygen.b (a
\* transcript or path first, a model second)
Derived(fn, key_a, key_b) ==
  /\ keygen.fn = "none"
  /\ keygen' = [keygen EXCEPT !.fn = fn, !.key_a = key_a, !.key_b = key_b]
  /\ op' = OpRec(fn, 0, "ok", 0)
  /\ UNCHANGED <<qvars, pc, cur, task_metadata, results, cache, loc, pipe_hist,
                 backend, pool, lru, agg, tp, tg, sg, clears>>

download_keys ==
  Derived("download", generate_download_key(keygen.a[1]),
          generate_download_key(keygen.b[1]))

extract_keys ==
  Derived("extract", generate_extract_key(keygen.a[1]),
          generate_extract_key(keygen.b[1]))

transcript_keys ==
  Derived("transcript", generate_transcript_key(keygen.a[1]),
          generate_transcript_key(keygen.b[1]))

summary_keys ==
  Derived("summary", generate_summary_key(keygen.a[1], keygen.a[2]),
          generate_summary_key(keygen.b[1], keygen.b[2]))

InitKeys ==
  /\ InitQueue
  /\ max_size = QUEUE_MAX_SIZE
  /\ pc = [t \in {Main} |-> "idle"]
  /\ cur = [t \in {Main} |-> 0]
  /\ task_metadata = <<>>
  /\ results = {}
  /\ cache = EmptyCache
  /\ loc = [t \in {Main} |-> NoLoc]
  /\ pipe_hist = <<>>
  /\ pool = NewPool
  /\ backend = AnyBackend
  /\ lru = NewCache(CACHE_SIZE, NoTtl)
  /\ \E ta, ma, tb, mb \in Strings :
       keygen = [NoKeys EXCEPT !.a = <<ta, ma>>, !.b = <<tb, mb>>]
  /\ agg = NewAggregator(NoEntries, NoEntries, {})
  /\ tp = NewThreadPool(THREAD_POOL_SIZE)
  /\ tg = NewTranscriptGenerator
  /\ sg = NoSummaries
  /\ clears = NoClears

NextKeys ==
  \/ download_keys
  \/ extract_keys
  \/ transcript_keys
  \/ summary_keys

SpecKeys == InitKeys /\ [][NextKeys]_vars

\* the inputs a derivation reads: the summary derivation both, the others
\* the first
InputsOf(fn, x) == IF fn = "summary" THEN x ELSE <<x[1]>>

\* C25: two calls of one key derivation return equal keys exactly when their
\* inputs are equal: equal inputs give equal keys, and inputs that differ (for
\* the summary derivation: in the transcript or in the model) give different
\* keys.
C25_KeysInjective ==
  keygen.fn # "none" =>
    ((keygen.key_a = keygen.key_b)
       <=> (InputsOf(keygen.fn, keygen.a) = InputsOf(keygen.fn, keygen.b)))

\* C25, the part that holds: equal inputs give equal keys, and the three
\* derivations of one input give different keys for different inputs.
C25_SingleInputKeys ==
  /\ keygen.fn # "none"
       /\ InputsOf(keygen.fn, keygen.a) = InputsOf(keygen.fn, keygen.b)
       => keygen.key_a = keygen.key_b
  /\ keygen.fn \in {"download", "extract", "transcript"} /\ keygen.a[1] # keygen.b[1]
       => keygen.key_a # keygen.key_b

\* ------------------------------------------------------------------ ThreadPool
\* The pool under its API. A work item is what executor.submit queued: the
\* function, the state of its Future and the number of times a worker has
\* started it. Task ids are minted in submission order, one per submit, so an
\* item's index is its task id.
MaxPoolWorkers == 2

MaxSubmits == 2

NPoolValues == 2

MaxWaits == 1

\* the functions submitted: return a value, or raise
PoolFuncs ==
  {[raises |-> FALSE, value |-> v] : v \in 1..NPoolValues} \cup {[raises |-> TRUE, value |-> 0]}

PoolTaskIds == 1..MaxSubmits

NoValue == 0

\* Future.done(): finished or cancelled
Done(item) == item.state \in {"finished", "cancelled"}

Registered(p, task_id) == task_id \in p.futures

Running(p) == {i \in DOMAIN p.items : p.items[i].state = "running"}

PoolFrame ==
  UNCHANGED <<qvars, pc, cur, task_metadata, results, cache, loc, pipe_hist, backend,
              pool, lru, keygen, agg, tg, sg, clears>>

\* executor.submit raises RuntimeError once executor.shutdown has been called
ExecutorRefuses_never(p) == FALSE

ExecutorRefuses(p) == p.executor_shutdown

\* ThreadPool.submit, to the return of executor.submit: refuse when
\* is_shutdown; a RuntimeError of the executor comes back as ThreadPoolError
\* and nothing was queued; otherwise the work item is queued and the caller
\* goes on to register the future
pool_submit(c, fn) ==
  /\ tp.call[c].pc = "idle"
  /\ IF tp.is_shutdown \/ ExecutorRefuses(tp)
       THEN /\ op' = OpRec("submit", 0, "ThreadPoolError", 0)
            /\ UNCHANGED tp
       ELSE /\ Len(tp.items) < MaxSubmits
            /\ LET task_id == Len(tp.items) + 1
               IN /\ tp' = [tp EXCEPT
                              !.items = Append(@, [fn |-> fn, state |-> "pending", runs |-> 0]),
                              !.call[c] = [IdleCall EXCEPT !.pc = "registering",
                                                           !.task_id = task_id]]
                  /\ op' = OpRec("submit", task_id, "queued", 0)
  /\ PoolFrame

\* ThreadPool.submit, under the lock: futures[task_id] = future,
\* submitted_count += 1, and the future is returned
pool_register(c) ==
  /\ tp.call[c].pc = "registering"
  /\ tp' = [tp EXCEPT !.futures = @ \cup {tp.call[c].task_id},
                      !.submitted_count = @ + 1,
                      !.call[c] = IdleCall]
  /\ op' = OpRec("register", tp.call[c].task_id, "ok", 0)
  /\ PoolFrame

\* a worker of the executor takes the oldest queued work item that was not
\* cancelled (set_running_or_notify_cancel) and starts its function
FreeWorker_any(p) == TRUE

FreeWorker(p) == Cardinality(Running(p)) < p.max_workers

run_start(i) ==
  /\ i \in DOMAIN tp.items
  /\ tp.items[i].state = "pending"
  /\ \A j \in 1..(i - 1) : tp.items[j].state # "pending"
  /\ FreeWorker(tp)
  /\ tp' = [tp EXCEPT !.items[i] = [@ EXCEPT !.state = "running", !.runs = @ + 1]]
  /\ op' = OpRec("run", i, "started", 0)
  /\ PoolFrame

\* the function returns or raises: the future holds the value or the exception
run_finish(i) ==
  /\ i \in DOMAIN tp.items
  /\ tp.items[i].state = "running"
  /\ tp' = [tp EXCEPT !.items[i] = [@ EXCEPT !.state = "finished"]]
  /\ op' = OpRec("run", i, "finished", 0)
  /\ PoolFrame

\* future.result(timeout) of a finished future: the value, or the exception
\* the function raised
Outcome_first(p, task_id) == p.items[1].fn

Outcome(p, task_id) == p.items[task_id].fn

\* ThreadPool.get_result: none for an unknown task id; otherwise
\* future.result(timeout or self.timeout), and none for whatever it raises:
\* the function's exception, CancelledError, or TimeoutError when the future
\* is not done at the end of the timeout
pool_get_result(c, task_id) ==
  /\ tp.call[c].pc = "idle"
  /\ op' =
       IF ~Registered(tp, task_id) THEN OpRec("get_result", task_id, "unknown", NoValue)
       ELSE IF tp.items[task_id].state = "cancelled"
         THEN OpRec("get_result", task_id, "cancelled", NoValue)
       ELSE IF tp.items[task_id].state # "finished"
         THEN OpRec("get_result", task_id, "timeout", NoValue)
       ELSE IF Outcome(tp, task_id).raises
         THEN OpRec("get_result", task_id, "raised", NoValue)
       ELSE OpRec("get_result", task_id, "value", Outcome(tp, task_id).value)
  /\ UNCHANGED tp
  /\ PoolFrame

\* ThreadPool.cancel, under the lock: false for an unknown task id, otherwise
\* future.cancel(): true and cancelled when the future is pending (or was
\* cancelled before), false when it is running or finished
pool_cancel(c, task_id) ==
  /\ tp.call[c].pc = "idle"
  /\ IF Registered(tp, task_id) /\ tp.items[task_id].state \in {"pending", "cancelled"}
       THEN /\ tp' = [tp EXCEPT !.items[task_id].state = "cancelled"]
            /\ op' = OpRec("cancel", task_id, "true", 0)
       ELSE /\ op' = OpRec("cancel", task_id, "false", 0)
            /\ UNCHANGED tp
  /\ PoolFrame

\* ThreadPool.wait_all, under the lock: futures = list(self.futures.values())
wait_all_called(c) ==
  /\ tp.call[c].pc = "idle"
  /\ tp' = [tp EXCEPT !.waits = @ + 1,
                      !.call[c] = [IdleCall EXCEPT !.pc = "waiting", !.snapshot = tp.futures]]
  /\ op' = OpRec("wait_all", 0, "called", 0)
  /\ PoolFrame

pool_wait_all(c) ==
  /\ tp.waits < MaxWaits
  /\ wait_all_called(c)

\* ThreadPool.wait_all, one round of the loop: as_completed yields a future of
\* the list that is done; future.result() returns and completed_count is
\* incremented, or raises (the function's exception, CancelledError) and
\* failed_count is incremented
pool_wait_next(c, i) ==
  /\ tp.call[c].pc = "waiting"
  /\ i \in tp.call[c].snapshot \ tp.call[c].yielded
  /\ Done(tp.items[i])
  /\ LET ok == tp.items[i].state = "finished" /\ ~Outcome(tp, i).raises
     IN tp' = [tp EXCEPT !.completed_count = IF ok THEN @ + 1 ELSE @,
                         !.failed_count = IF ok THEN @ ELSE @ + 1,
                         !.call[c].yielded = @ \cup {i}]
  /\ op' = OpRec("wait_all", i, "yielded", 0)
  /\ PoolFrame

\* as_completed is exhausted when it has yielded every future of the list
Exhausted_any(call) == TRUE

Exhausted(call) == call.yielded = call.snapshot

\* ThreadPool.wait_all returns True after the loop
pool_wait_return(c) ==
  /\ tp.call[c].pc = "waiting"
  /\ Exhausted(tp.call[c])
  /\ tp' = [tp EXCEPT !.call[c] = [@ EXCEPT !.pc = "idle"]]
  /\ op' = OpRec("wait_all", 0, "true", 0)
  /\ PoolFrame

\* ThreadPool.wait_all returns False: as_completed raises TimeoutError with
\* futures of the list not done
pool_wait_timeout(c) ==
  /\ tp.call[c].pc = "waiting"
  /\ \E i \in tp.call[c].snapshot : ~Done(tp.items[i])
  /\ tp' = [tp EXCEPT !.call[c] = [@ EXCEPT !.pc = "idle"]]
  /\ op' = OpRec("wait_all", 0, "false", 0)
  /\ PoolFrame

\* ThreadPool.shutdown: return when is_shutdown; otherwise executor.shutdown
\* stops the executor accepting work, and with wait it joins the workers
\* before is_shutdown is set
pool_shutdown(c, wait) ==
  /\ tp.call[c].pc = "idle"
  /\ IF tp.is_shutdown
       THEN /\ op' = OpRec("shutdown", 0, "already", 0)
            /\ UNCHANGED tp
       ELSE /\ tp' = [tp EXCEPT !.executor_shutdown = TRUE,
                                !.is_shutdown = IF wait THEN @ ELSE TRUE,
                                !.call[c] = IF wait THEN [IdleCall EXCEPT !.pc = "joining"]
                                            ELSE IdleCall]
            /\ op' = OpRec("shutdown", 0, IF wait THEN "joining" ELSE "ok", 0)
  /\ PoolFrame

\* executor.shutdown(wait=True) returns when the workers have drained the
\* queue and exited; then self.is_shutdown = True
pool_shutdown_join(c) ==
  /\ tp.call[c].pc = "joining"
  /\ \A i \in DOMAIN tp.items : Done(tp.items[i])
  /\ tp' = [tp EXCEPT !.is_shutdown = TRUE, !.call[c] = IdleCall]
  /\ op' = OpRec("shutdown", 0, "ok", 0)
  /\ PoolFrame

InitPool ==
  /\ InitQueue
  /\ max_size = QUEUE_MAX_SIZE
  /\ pc = [t \in {Main} |-> "idle"]
  /\ cur = [t \in {Main} |-> 0]
  /\ task_metadata = <<>>
  /\ results = {}
  /\ cache = EmptyCache
  /\ loc = [t \in {Main} |-> NoLoc]
  /\ pipe_hist = <<>>
  /\ pool = NewPool
  /\ backend = AnyBackend
  /\ lru = NewCache(CACHE_SIZE, NoTtl)
  /\ keygen = NoKeys
  /\ agg = NewAggregator(NoEntries, NoEntries, {})
  /\ \E n \in 1..MaxPoolWorkers : tp = NewThreadPool(n)
  /\ tg = NewTranscriptGenerator
  /\ sg = NoSummaries
  /\ clears = NoClears

CallerStep(c) ==
  \/ \E fn \in PoolFuncs : pool_submit(c, fn)
  \/ pool_register(c)
  \/ \E task_id \in PoolTaskIds : pool_get_result(c, task_id)
  \/ \E task_id \in PoolTaskIds : pool_cancel(c, task_id)
  \/ pool_wait_all(c)
  \/ \E i \in PoolTaskIds : pool_wait_next(c, i)
  \/ pool_wait_return(c)
  \/ pool_wait_timeout(c)
  \/ \E wait \in BOOLEAN : pool_shutdown(c, wait)
  \/ pool_shutdown_join(c)

ExecutorStep(i) ==
  \/ run_start(i)
  \/ run_finish(i)

NextPool ==
  \/ \E c \in PoolCallers : CallerStep(c)
  \/ \E i \in PoolTaskIds : ExecutorStep(i)

SpecPool == InitPool /\ [][NextPool]_vars

\* the executor's workers keep running: a work item that can start starts, a
\* function that runs terminates
FairPool == SpecPool /\ \A i \in PoolTaskIds : WF_vars(ExecutorStep(i))

Started(item) == item.state \in {"running", "finished"}

C28_GetResult ==
  op.name = "get_result" =>
    LET task_id == op.task_id
        known == Registered(tp, task_id)
        item == tp.items[task_id]
    IN /\ op.result \in {"value", "unknown", "raised", "cancelled", "timeout"}
       /\ op.result = "value"
            <=> known /\ item.state = "finished" /\ ~item.fn.raises
       /\ op.result = "value" => op.seq = item.fn.value
       /\ op.result # "value" => op.seq = NoValue
       /\ op.result = "unknown" <=> ~known
       /\ op.result = "raised" <=> known /\ item.state = "finished" /\ item.fn.raises
       /\ op.result = "cancelled" <=> known /\ item.state = "cancelled"
       /\ op.result = "timeout" <=> known /\ item.state \in {"pending", "running"}

\* C28: two finished tasks with different values, and get_result of the
\* second has returned the second's value
C28_Witness ==
  /\ op.name = "get_result" /\ op.result = "value" /\ op.task_id = 2
  /\ Len(tp.items) = 2
  /\ tp.items[1].state = "finished" /\ ~tp.items[1].fn.raises
  /\ tp.items[1].fn.value # tp.items[2].fn.value
  /\ op.seq = tp.items[2].fn.value

\* ------------------------------------------------------------ ResultAggregator
\* The aggregator under its API, over ProcessingResults of a few task ids. An
\* Optional field holds PyNone or a one-element sequence; a datetime has
\* seconds and microseconds.
NAggIds == 2

NTranscripts == 2

MaxMicro == 1

AggIds == 1..NAggIds

PyNone == <<>>

Datetimes == {[sec |-> 1, micro |-> m] : m \in 0..MaxMicro}

Metadatas ==
  {[url |-> 1, title |-> t, duration |-> <<60>>, platform |-> <<1>>,
    upload_date |-> PyNone, channel |-> <<1>>] : t \in {PyNone, <<1>>}}

ProcessingResult(task_id, video_metadata, transcript, created_at) ==
  [task_id |-> task_id, video_metadata |-> video_metadata, video_path |-> 1,
   audio_path |-> 1, transcript |-> transcript, summary |-> transcript,
   processing_time |-> 1, created_at |-> created_at]

ProcessingResults ==
  {ProcessingResult(i, md, t, at) :
     i \in AggIds, md \in Metadatas, t \in 1..NTranscripts, at \in Datetimes}

\* datetime.isoformat(): the microseconds are written only when not zero
Isoformat(dt) == IF dt.micro = 0 THEN <<dt.sec>> ELSE <<dt.sec, dt.micro>>

\* datetime.fromisoformat, the fraction dropped
FromIsoformat_seconds(s) == [sec |-> s[1], micro |-> 0]

\* datetime.fromisoformat: microseconds 0 when the text has no fraction
FromIsoformat(s) == [sec |-> s[1], micro |-> IF Len(s) > 1 THEN s[2] ELSE 0]

\* ProcessingResult.to_dict
to_dict(r) ==
  [task_id |-> r.task_id,
   video_metadata |->
     [url |-> r.video_metadata.url, title |-> r.video_metadata.title,
      duration |-> r.video_metadata.duration, platform |-> r.video_metadata.platform,
      upload_date |-> r.video_metadata.upload_date, channel |-> r.video_metadata.channel],
   video_path |-> r.video_path, audio_path |-> r.audio_path,
   transcript |-> r.transcript, summary |-> r.summary,
   processing_time |-> r.processing_time, created_at |-> Isoformat(r.created_at)]

\* json.dump and json.load of an Optional value: None is written as null
JsonOf(opt) == IF opt = PyNone THEN [null |-> TRUE, v |-> 0] ELSE [null |-> FALSE, v |-> opt[1]]

PyOf(j) == IF j.null THEN PyNone ELSE <<j.v>>

JsonDump(d) ==
  [d EXCEPT !.video_metadata =
     [url |-> @.url, title |-> JsonOf(@.title), duration |-> JsonOf(@.duration),
      platform |-> JsonOf(@.platform), upload_date |-> JsonOf(@.upload_date),
      channel |-> JsonOf(@.channel)]]

JsonLoad(text) ==
  [text EXCEPT !.video_metadata =
     [url |-> @.url, title |-> PyOf(@.title), duration |-> PyOf(@.duration),
      platform |-> PyOf(@.platform), upload_date |-> PyOf(@.upload_date),
      channel |-> PyOf(@.channel)]]

\* ResultAggregator._dict_to_result
dict_to_result(result_dict) ==
  [task_id |-> result_dict.task_id,
   video_metadata |->
     [url |-> result_dict.video_metadata.url, title |-> result_dict.video_metadata.title,
      duration |-> result_dict.video_metadata.duration,
      platform |-> result_dict.video_metadata.platform,
      upload_date |-> result_dict.video_metadata.upload_date,
      channel |-> result_dict.video_metadata.channel],
   video_path |-> result_dict.video_path, audio_path |-> result_dict.audio_path,
   transcript |-> result_dict.transcript, summary |-> result_dict.summary,
   processing_time |-> result_dict.processing_time,
   created_at |-> FromIsoformat(result_dict.created_at)]

Put(m, k, v) == [i \in DOMAIN m \cup {k} |-> IF i = k THEN v ELSE m[i]]

Remove(m, k) == [i \in DOMAIN m \ {k} |-> m[i]]

AggFrame ==
  UNCHANGED <<qvars, pc, cur, task_metadata, results, cache, loc, pipe_hist, backend,
              pool, lru, keygen, tp, tg, sg, clears>>

\* ResultAggregator.aggregate: build the result with created_at = now, put it
\* in _results_cache, return it
aggregate(task_id, video_metadata, transcript, now) ==
  /\ LET result == ProcessingResult(task_id, video_metadata, transcript, now)
     IN agg' = [agg EXCEPT !.results_cache = Put(@, task_id, result),
                           !.fresh = @ \ {task_id},
                           !.ret = Returned("result", result)]
  /\ op' = OpRec("aggregate", task_id, "ok", 0)
  /\ AggFrame

\* ResultAggregator.save: write to_dict(result) as JSON to <task_id>.json,
\* return the path; _results_cache is not touched
save(result) ==
  /\ agg' = [agg EXCEPT !.files = Put(@, result.task_id, JsonDump(to_dict(result))),
                        !.saved = Put(@, result.task_id, result),
                        !.fresh = @ \cup {result.task_id},
                        !.ret = Returned("path", result.task_id)]
  /\ op' = OpRec("save", result.task_id, "ok", 0)
  /\ AggFrame

\* ResultAggregator.retrieve: the cached result when there is one; otherwise
\* none when the file is missing; otherwise the file's result, which is
\* cached and returned. The second component is the cache afterwards. The
\* operation record notes with 1 that the cache had no entry.
Retrieved(a, task_id) ==
  IF task_id \in DOMAIN a.results_cache
    THEN <<Returned("result", a.results_cache[task_id]), a.results_cache>>
  ELSE IF task_id \notin DOMAIN a.files
    THEN <<Returned("none", 0), a.results_cache>>
  ELSE LET result == dict_to_result(JsonLoad(a.files[task_id]))
       IN <<Returned("result", result), Put(a.results_cache, task_id, result)>>

retrieve(task_id) ==
  /\ LET r == Retrieved(agg, task_id)
     IN /\ agg' = [agg EXCEPT !.results_cache = r[2], !.ret = r[1]]
        /\ op' = OpRec("retrieve", task_id, r[1].kind,
                       IF task_id \in DOMAIN agg.results_cache THEN 0 ELSE 1)
  /\ AggFrame

\* ResultAggregator.query: retrieve, and the result's to_dict unless none
query(task_id) ==
  /\ LET r == Retrieved(agg, task_id)
     IN /\ agg' = [agg EXCEPT !.results_cache = r[2],
                              !.ret = IF r[1].kind = "none" THEN r[1]
                                      ELSE Returned("dict", to_dict(r[1].val))]
        /\ op' = OpRec("query", task_id, r[1].kind,
                       IF task_id \in DOMAIN agg.results_cache THEN 0 ELSE 1)
  /\ AggFrame

\* ResultAggregator.delete: drop the cached result and the file; true when
\* the file existed
agg_delete(task_id) ==
  /\ agg' = [agg EXCEPT !.results_cache = Remove(@, task_id),
                        !.files = Remove(@, task_id),
                        !.saved = Remove(@, task_id),
                        !.fresh = @ \ {task_id},
                        !.ret = Returned("bool", task_id \in DOMAIN agg.files)]
  /\ op' = OpRec("delete", task_id, "ok", 0)
  /\ AggFrame

\* ResultAggregator.clear_all: empty the cache, remove every file
clear_all ==
  /\ agg' = [agg EXCEPT !.results_cache = NoEntries, !.files = NoEntries,
                        !.saved = NoEntries, !.fresh = {},
                        !.ret = Returned("bool", TRUE)]
  /\ op' = OpRec("clear_all", 0, "ok", 0)
  /\ AggFrame

\* a new ResultAggregator on the same storage directory: the files stay, the
\* in-memory cache starts empty
reopen ==
  /\ agg' = NewAggregator(agg.files, agg.saved, agg.fresh)
  /\ op' = OpRec("reopen", 0, "ok", 0)
  /\ AggFrame

InitAggregator ==
  /\ InitQueue
  /\ max_size = QUEUE_MAX_SIZE
  /\ pc = [t \in {Main} |-> "idle"]
  /\ cur = [t \in {Main} |-> 0]
  /\ task_metadata = <<>>
  /\ results = {}
  /\ cache = EmptyCache
  /\ loc = [t \in {Main} |-> NoLoc]
  /\ pipe_hist = <<>>
  /\ pool = NewPool
  /\ backend = AnyBackend
  /\ lru = NewCache(CACHE_SIZE, NoTtl)
  /\ keygen = NoKeys
  /\ agg = NewAggregator(NoEntries, NoEntries, {})
  /\ tp = NewThreadPool(THREAD_POOL_SIZE)
  /\ tg = NewTranscriptGenerator
  /\ sg = NoSummaries
  /\ clears = NoClears

NextAggregator ==
  \/ \E i \in AggIds, md \in Metadatas, t \in 1..NTranscripts, now \in Datetimes :
       aggregate(i, md, t, now)
  \/ \E result \in ProcessingResults : save(result)
  \/ \E task_id \in AggIds : retrieve(task_id)
  \/ \E task_id \in AggIds : query(task_id)
  \/ \E task_id \in AggIds : agg_delete(task_id)
  \/ clear_all
  \/ reopen

SpecAggregator == InitAggregator /\ [][NextAggregator]_vars

\* C29: save(P) then retrieve(P.task_id) with no entry for P.task_id in the
\* in-memory cache returns a result whose fields all equal P's.
C29_RoundTrip ==
  [][op'.name = "retrieve" /\ op'.task_id \notin DOMAIN agg.results_cache
       /\ op'.task_id \in DOMAIN agg.saved
     => agg'.ret = Returned("result", agg.saved[op'.task_id])]_vars

\* C29: retrieve on a cold cache has returned, read from the file, a result
\* with a None title and a created_at with microseconds
C29_Witness ==
  /\ op.name = "retrieve" /\ op.result = "result" /\ op.seq = 1
  /\ op.task_id \in DOMAIN agg.saved
  /\ agg.ret = Returned("result", agg.saved[op.task_id])
  /\ agg.ret.val.video_metadata.title = PyNone
  /\ agg.ret.val.created_at.micro = 1
  /\ agg.ret.val.transcript = 2

\* C30: once save(r) has written the file of r.task_id, and until the task id
\* is saved, aggregated or deleted again, retrieve(r.task_id) returns a result
\* equal to r and query(r.task_id) returns r's dictionary form, whatever was
\* aggregated or retrieved under that task id before the save.
C30_FileIsAuthoritative ==
  [][op'.name \in {"retrieve", "query"} /\ op'.task_id \in agg.fresh
     => agg'.ret = IF op'.name = "retrieve"
                     THEN Returned("result", agg.saved[op'.task_id])
                     ELSE Returned("dict", to_dict(agg.saved[op'.task_id]))]_vars

WarmRerun(p, q) ==
  /\ p < q
  /\ ~pipe_hist[p].use_queue /\ ~pipe_hist[q].use_queue
  /\ task_metadata[p].video_url = task_metadata[q].video_url
  /\ task_metadata[p].status = PIPE_COMPLETED
  /\ task_metadata[q].status = PIPE_COMPLETED

\* the second run started no back-end and its four outputs equal the first's
SameWithoutBackend(p, q) ==
  /\ pipe_hist[q].started = {}
  /\ pipe_hist[q].produced = pipe_hist[p].produced
  /\ pipe_hist[q].result = pipe_hist[p].result

\* the only pipeline so far is a synchronous one that completed
ColdRun ==
  /\ Len(task_metadata) = 1
  /\ ~pipe_hist[1].use_queue
  /\ task_metadata[1].status = PIPE_COMPLETED

\* C31: after a first, cold synchronous run the cache has counted 0 hits; a
\* second synchronous run of the same URL starts no back-end, returns the
\* video, audio, transcript and summary of the first, and counts one hit per
\* stage, so that hits is 4 after it.
C31_WarmRerun ==
  /\ ColdRun => lru.hits = 0
  /\ \A p, q \in Pipelines :
       WarmRerun(p, q) => SameWithoutBackend(p, q) /\ lru.hits = 4

\* C31, what the code does: the same, with 3 hits after the second run
C31_ThreeHits ==
  /\ ColdRun => lru.hits = 0
  /\ \A p, q \in Pipelines :
       WarmRerun(p, q) => SameWithoutBackend(p, q) /\ lru.hits = 3


\* ===================================================== TranscriptGenerator
\* generate(audio_path, language), on a generator built with a cache.  The
\* audio files exist; the back-end is the Whisper API.
MaxGenerates == 3

AudioPaths == {s \in Strings : Len(s) = 1}

\* st.sampled_from(["zh", "en", "auto"])
Languages == {"zh", "en", "auto"}

\* what _transcribe_with_whisper returns for an audio file when it is asked
\* for a language: a non-empty text that depends on both
Transcription(audio_path, language) ==
  [audio_path |-> audio_path, language |-> language]

TranscriptFrame ==
  UNCHANGED <<qvars, pc, cur, task_metadata, results, cache, loc, pipe_hist, backend,
              pool, lru, keygen, agg, tp, sg, clears>>

\* generate: cache_key is generate_transcript_key(audio_path); the cached
\* text is returned if the key is cached; otherwise the back-end is
\* called with the language, and its text is cached and returned, or its
\* failure is raised as TranscriptionError and nothing is cached
tg_generate(audio_path, language) ==
  /\ tg.calls < MaxGenerates
  /\ LET cache_key == generate_transcript_key(audio_path)
         call == [audio_path |-> audio_path, language |-> language]
     IN IF cache_key \in DOMAIN tg.cache
          THEN /\ tg' = [tg EXCEPT !.calls = @ + 1, !.call = call,
                                   !.ret = Returned("ok", tg.cache[cache_key])]
               /\ op' = OpRec("generate", 0, "cached", 0)
          ELSE \/ /\ tg' = [tg EXCEPT
                       !.calls = @ + 1, !.call = call,
                       !.cache = Put(@, cache_key, Transcription(audio_path, language)),
                       !.ret = Returned("ok", Transcription(audio_path, language))]
                  /\ op' = OpRec("generate", 0, "transcribed", 0)
               \/ /\ tg' = [tg EXCEPT !.calls = @ + 1, !.call = call,
                                      !.ret = Returned("TranscriptionError", 0)]
                  /\ op' = OpRec("generate", 0, "TranscriptionError", 0)
  /\ TranscriptFrame

\* delete_cached_transcript(audio_path): self.cache.delete(cache_key)
tg_delete(audio_path) ==
  /\ tg' = [tg EXCEPT !.cache = Remove(@, generate_transcript_key(audio_path))]
  /\ op' = OpRec("delete_cached_transcript", 0, "ok", 0)
  /\ TranscriptFrame

InitTranscripts ==
  /\ InitQueue
  /\ max_size = QUEUE_MAX_SIZE
  /\ pc = [t \in {Main} |-> "idle"]
  /\ cur = [t \in {Main} |-> 0]
  /\ InitOrchestrator({Main})
  /\ backend = AnyBackend

NextTranscripts ==
  \/ \E a \in AudioPaths, l \in Languages : tg_generate(a, l)
  \/ \E a \in AudioPaths : tg_delete(a)

SpecTranscripts == InitTranscripts /\ [][NextTranscripts]_vars

\* C33: every generate(audio_path, language) that returns a text returns the
\* transcription the back-end produces for that audio file in that language,
\* whatever generate calls were made before on the generator.
C33_RequestedLanguage ==
  tg.ret.kind = "ok" => tg.ret.val = Transcription(tg.call.audio_path, tg.call.language)

\* C33, what the code guarantees: the text returned is a transcription of the
\* requested audio file
C33_SameAudio ==
  tg.ret.kind = "ok" => tg.ret.val.audio_path = tg.call.audio_path

\* ============================== SummaryGenerator.generate_concurrent
\* A transcript is held as its first 50 characters (head, never empty) and
\* the characters after them (tail, 0: none), so that transcript[:50] is head.
NHeads == 2

NTails == 2

MaxInputs == 3

Texts == [head : 1..NHeads, tail : 0..(NTails - 1)]

NoText == [head |-> 0, tail |-> 0]

\* transcript[:50]
First50(transcript) == transcript.head

\* the whole transcript as the dictionary key
WholeText(transcript) == transcript

ResultKey(transcript) == First50(transcript)

\* what self.generate returns for a transcript, and Python's None
Summary(transcript) == [kind |-> "summary", of |-> transcript]

NoSummary == [kind |-> "none", of |-> NoText]

\* the outcome of self.generate(transcript, model): the summary, or an
\* exception when the back-end fails for this transcript
Generated(transcript) ==
  IF transcript \in sg.failing THEN NoSummary ELSE Summary(transcript)

SummaryFrame ==
  UNCHANGED <<qvars, pc, cur, task_metadata, results, cache, loc, pipe_hist, backend,
              pool, lru, keygen, agg, tp, tg, clears>>

\* results = {}; models = [None] * len(transcripts); the branch on thread_pool
sg_begin ==
  /\ sg.pc = "start"
  /\ sg' = [sg EXCEPT !.pc = IF sg.pooled THEN "submit" ELSE "generate", !.i = 1]
  /\ op' = OpRec("generate_concurrent", 0, "begin", 0)
  /\ SummaryFrame

\* without a pool: summary = self.generate(...); results[transcript[:50]] =
\* summary, or None when generate raised
sg_generate ==
  /\ sg.pc = "generate" /\ sg.i <= Len(sg.transcripts)
  /\ LET transcript == sg.transcripts[sg.i]
     IN sg' = [sg EXCEPT !.results = Put(@, ResultKey(transcript), Generated(transcript)),
                         !.i = @ + 1]
  /\ op' = OpRec("generate_concurrent", sg.i, "generated", 0)
  /\ SummaryFrame

\* with a pool: thread_pool.submit(f"summarize_{i}", self.generate, ...)
sg_submit ==
  /\ sg.pc = "submit"
  /\ IF sg.i <= Len(sg.transcripts)
       THEN sg' = [sg EXCEPT !.outcome = Put(@, sg.i, [done |-> FALSE, val |-> NoSummary]),
                             !.i = @ + 1]
       ELSE sg' = [sg EXCEPT !.pc = "collect", !.i = 1]
  /\ op' = OpRec("generate_concurrent", sg.i, "submitted", 0)
  /\ SummaryFrame

\* a pool thread runs the submitted self.generate
sg_run(i) ==
  /\ i \in DOMAIN sg.outcome /\ ~sg.outcome[i].done
  /\ sg' = [sg EXCEPT !.outcome[i] = [done |-> TRUE, val |-> Generated(sg.transcripts[i])]]
  /\ op' = OpRec("generate", i, "ran", 0)
  /\ SummaryFrame

\* summary = thread_pool.get_result(f"summarize_{i}"), which waits for the
\* future and gives None when it raised; results[transcript[:50]] = summary
sg_collect ==
  /\ sg.pc = "collect" /\ sg.i <= Len(sg.transcripts)
  /\ sg.outcome[sg.i].done
  /\ sg' = [sg EXCEPT !.results = Put(@, ResultKey(sg.transcripts[sg.i]), sg.outcome[sg.i].val),
                      !.i = @ + 1]
  /\ op' = OpRec("generate_concurrent", sg.i, "collected", 0)
  /\ SummaryFrame

\* return results
sg_return ==
  /\ sg.pc \in {"generate", "collect"} /\ sg.i > Len(sg.transcripts)
  /\ sg' = [sg EXCEPT !.pc = "done"]
  /\ op' = OpRec("generate_concurrent", 0, "returned", 0)
  /\ SummaryFrame

TextLists == UNION {[1..n -> Texts] : n \in 0..MaxInputs}

InitSummaries ==
  /\ InitQueue
  /\ max_size = QUEUE_MAX_SIZE
  /\ pc = [t \in {Main} |-> "idle"]
  /\ cur = [t \in {Main} |-> 0]
  /\ task_metadata = <<>>
  /\ results = {}
  /\ cache = EmptyCache
  /\ loc = [t \in {Main} |-> NoLoc]
  /\ pipe_hist = <<>>
  /\ pool = NewPool
  /\ backend = AnyBackend
  /\ lru = NewCache(CACHE_SIZE, NoTtl)
  /\ keygen = NoKeys
  /\ agg = NewAggregator(NoEntries, NoEntries, {})
  /\ tp = NewThreadPool(THREAD_POOL_SIZE)
  /\ tg = NewTranscriptGenerator
  /\ clears = NoClears
  /\ \E transcripts \in TextLists, pooled \in BOOLEAN :
       \E failing \in SUBSET {transcripts[i] : i \in DOMAIN transcripts} :
         sg = [NoSummaries EXCEPT !.pc = "start", !.transcripts = transcripts,
                                  !.pooled = pooled, !.failing = failing]

NextSummaries ==
  \/ sg_begin
  \/ sg_generate
  \/ sg_submit
  \/ \E i \in 1..MaxInputs : sg_run(i)
  \/ sg_collect
  \/ sg_return

SpecSummaries == InitSummaries /\ [][NextSummaries]_vars

Inputs == {sg.transcripts[i] : i \in DOMAIN sg.transcripts}

\* C34: the mapping generate_concurrent returns has exactly one entry per
\* distinct transcript, holding that transcript's summary, or none when its
\* generation failed; so a failure of one transcript leaves the entry of
\* every other transcript its summary, and the number of entries is the
\* number of distinct transcripts.
C34_EntryPerInput ==
  sg.pc = "done" =>
    /\ Cardinality(DOMAIN sg.results) = Cardinality(Inputs)
    /\ \A t \in Inputs :
         /\ ResultKey(t) \in DOMAIN sg.results
         /\ sg.results[ResultKey(t)] = Generated(t)

\* the last position in the list of an input with the first 50 characters of t
LastWithKey(t) ==
  CHOOSE i \in DOMAIN sg.transcripts :
    /\ ResultKey(sg.transcripts[i]) = ResultKey(t)
    /\ \A j \in DOMAIN sg.transcripts :
         ResultKey(sg.transcripts[j]) = ResultKey(t) => j <= i

\* C34, what the code does: one entry per distinct 50-character prefix,
\* holding the outcome of the last input with that prefix
C34_EntryPerPrefix ==
  sg.pc = "done" =>
    /\ DOMAIN sg.results = {ResultKey(t) : t \in Inputs}
    /\ \A t \in Inputs :
         sg.results[ResultKey(t)] = Generated(sg.transcripts[LastWithKey(t)])

\* C35: in queue mode (default queue size) no handler finds the pipeline
\* without its queue_tasks record when it records the next stage's task id,
\* also when the worker handles the DOWNLOAD task before process_video has
\* recorded the download id; so no handler that holds the output of its
\* stage goes on to mark_failed.
C35_RecordNeverFails ==
  max_size = QUEUE_MAX_SIZE =>
    /\ \A p \in Pipelines : pipe_hist[p].key_errors = 0
    /\ \A t \in DOMAIN pc : pc[t] = "h_failed" => loc[t].out = NoArtifact

\* ===================== process_batch_concurrent beside queue workers
\* start_queue_workers may be called before the batch; the workers and the
\* batch jobs run on the same ThreadPool.  No queue-mode pipeline is
\* submitted here, so every dequeue of a worker times out.
AllThreads == {Main} \cup Workers \cup BatchThreads

InitBatchWorkers ==
  /\ InitQueue
  /\ max_size = QUEUE_MAX_SIZE
  /\ pc = [t \in AllThreads |-> IF t = Main THEN "idle" ELSE "off"]
  /\ cur = [t \in AllThreads |-> 0]
  /\ InitOrchestrator(AllThreads)
  /\ backend = AnyBackend

\* start_queue_workers, called by the thread that later submits the batch
start_before_batch(t) ==
  /\ pc[Main] = "idle"
  /\ \A x \in BatchThreads : pc[x] = "off"
  /\ start_queue_worker(t)

BatchMainStep ==
  \/ \E t \in Workers : start_before_batch(t)
  \/ \E l \in BatchLists : process_batch_concurrent(Main, l)
  \/ \E t \in BatchThreads : batch_submit(t)
  \/ batch_wait_all(Main)

BatchJobStep(t) ==
  \/ isolated_start(t)
  \/ stage_lookup(t)
  \/ stage_call(t)
  \/ stage_backend_ok(t)
  \/ stage_backend_fail(t)
  \/ sync_store(t)
  \/ sync_complete(t)
  \/ isolated_failed(t)

NextBatchWorkers ==
  \/ BatchMainStep
  \/ \E t \in BatchThreads : BatchJobStep(t)
  \/ \E t \in Workers : w_dequeue_empty(t)

\* every thread that can take a step eventually takes one
SpecBatchWorkers ==
  /\ InitBatchWorkers /\ [][NextBatchWorkers]_vars
  /\ WF_vars(BatchMainStep)
  /\ \A t \in BatchThreads : WF_vars(BatchJobStep(t))
  /\ \A t \in Workers : WF_vars(w_dequeue_empty(t))

\* process_batch_concurrent has returned and no pipeline is still processing
BatchReturned ==
  /\ pc[Main] = "idle"
  /\ \A t \in BatchThreads : pc[t] = "done"
  /\ \A p \in Pipelines : task_metadata[p].status \in {PIPE_COMPLETED, PIPE_FAILED}

\* C36: a process_batch_concurrent call that has submitted its jobs eventually
\* returns, and then every pipeline it submitted is completed or failed,
\* also when queue workers are running on the same pool.
C36_BatchReturns == (pc[Main] = "wait_all") ~> BatchReturned

\* C36, what the code does: the call returns when no queue worker was started
C36_ReturnsWithoutWorkers ==
  (pc[Main] = "wait_all" /\ \A t \in Workers : pc[t] = "off") ~> BatchReturned

\* ================================== several consumers of one MessageQueue
\* A producer enqueues; NConsumers queue workers run process_queue_worker.
\* Of process_queue_task only its calls on the queue are kept: a handler may
\* enqueue the next stage's task, and it returns (mark_completed) or raises
\* (mark_failed).
NConsumers == 2

Consumers == 1..NConsumers

InitConsumers ==
  /\ InitQueue
  /\ max_size \in 1..MaxQueueSize
  /\ pc = [t \in {Main} \cup Consumers |-> "idle"]
  /\ cur = [t \in {Main} \cup Consumers |-> 0]
  /\ InitOrchestrator({Main} \cup Consumers)
  /\ backend = AnyBackend

\* task = self.message_queue.dequeue(timeout=timeout): the get
c_dequeue_get(t) ==
  /\ t \in Consumers
  /\ dequeue_get(t)

\* the dequeue times out: task is None, continue
c_dequeue_empty(t) ==
  /\ t \in Consumers
  /\ dequeue_empty(t)

\* dequeue marks the task RUNNING and returns it: process_queue_task(task)
c_dequeue_lock(t) ==
  /\ t \in Consumers /\ pc[t] = "dequeue_lock"
  /\ mq_running(cur[t])
  /\ At(t, "handler")
  /\ UNCHANGED <<cur, ovars>>

\* the handler enqueues the task of the next stage: the put
c_handler_enqueue(t) ==
  /\ t \in Consumers /\ pc[t] = "handler"
  /\ nextId <= MaxTasks
  /\ mq_put(DOWNLOAD, "in")
  /\ loc' = [loc EXCEPT ![t].new = nextId]
  /\ At(t, "h_register")
  /\ UNCHANGED <<cur, task_metadata, results, cache, pipe_hist>>
  /\ UNCHANGED <<backend, pool, lru, keygen, agg, tp, tg, sg, clears>>

\* the registration of the enqueued task under the lock; the handler returns
c_handler_register(t) ==
  /\ t \in Consumers /\ pc[t] = "h_register"
  /\ mq_register(loc[t].new)
  /\ loc' = [loc EXCEPT ![t] = NoLoc]
  /\ At(t, "h_completed")
  /\ UNCHANGED <<cur, task_metadata, results, cache, pipe_hist>>
  /\ UNCHANGED <<backend, pool, lru, keygen, agg, tp, tg, sg, clears>>

\* the handler returns, or raises, without an enqueue
c_handler_end(t, raised) ==
  /\ t \in Consumers /\ pc[t] = "handler"
  /\ At(t, IF raised THEN "h_failed" ELSE "h_completed")
  /\ op' = OpRec("process_queue_task", cur[t], IF raised THEN "raised" ELSE "ok", 0)
  /\ UNCHANGED <<qvars, cur, ovars>>

\* self.message_queue.mark_completed(task.task_id)
c_completed(t) ==
  /\ t \in Consumers /\ pc[t] = "h_completed"
  /\ mq_mark_completed(cur[t])
  /\ Goto(t, "idle", 0)
  /\ UNCHANGED ovars

\* self.message_queue.mark_failed(task.task_id, str(e))
c_failed(t) ==
  /\ t \in Consumers /\ pc[t] = "h_failed"
  /\ \E msg \in ErrorMessages : mq_mark_failed(cur[t], msg)
  /\ Goto(t, "idle", 0)
  /\ UNCHANGED ovars

NextConsumers ==
  \/ \E ty \in ClientTaskTypes : enqueue_put(Main, ty, "in")
  \/ enqueue_full(Main)
  \/ enqueue_register(Main)
  \/ \E t \in Consumers : c_dequeue_get(t)
  \/ \E t \in Consumers : c_dequeue_empty(t)
  \/ \E t \in Consumers : c_dequeue_lock(t)
  \/ \E t \in Consumers : c_handler_enqueue(t)
  \/ \E t \in Consumers : c_handler_register(t)
  \/ \E t \in Consumers, raised \in BOOLEAN : c_handler_end(t, raised)
  \/ \E t \in Consumers : c_completed(t)
  \/ \E t \in Consumers : c_failed(t)

SpecConsumers == InitConsumers /\ [][NextConsumers]_vars

\* the worker t has the queue task id in hand: from the get that delivered it
\* to the mark that ends its handling
InHand(t, id) == pc[t] \in {"dequeue_lock", "handler", "h_register", "h_completed", "h_failed"}
                 /\ cur[t] = id

\* the pushes of task id that wait in the channel
Waiting(id) == {i \in 1..Len(channel) : channel[i].id = id}

\* C37: with several concurrent consumers every push (by enqueue or by the
\* re-enqueue of mark_failed) is delivered to one dequeue call only: a push
\* waits in the channel once, leaves it when it is delivered, and each get
\* delivers a push no get delivered before; so a queue task is in the hands
\* of at most one worker, and then it does not wait in the channel.
C37_OneConsumer ==
  /\ \A i, j \in 1..Len(channel) : channel[i].seq = channel[j].seq => i = j
  /\ \A i \in 1..Len(channel) : channel[i].seq > delivered /\ channel[i].seq <= pushed
  /\ pushed = delivered + Len(channel)
  /\ op.name = "dequeue_get" => op.seq = delivered
  /\ \A id \in Minted :
       Cardinality({t \in Consumers : InHand(t, id)}) + Cardinality(Waiting(id)) <= 1

\* C37 witness: both workers have a task in hand at the same time, one of
\* them a task that an earlier mark_failed pushed again
C37_Witness ==
  /\ \E id \in Minted : InHand(1, id) /\ pc[1] = "handler" /\ task[id].retry_count >= 1
  /\ \E id \in Minted : InHand(2, id) /\ pc[2] = "handler"

\* the step sets the status of the queue-mode pipeline p to "completed"
BecomesCompleted(p) ==
  /\ p \in Pipelines /\ pipe_hist[p].use_queue
  /\ task_metadata[p].status # PIPE_COMPLETED
  /\ task_metadata'[p].status = PIPE_COMPLETED

\* C38: in queue mode, at the moment a pipeline's status becomes completed
\* it has a queue task of each of the four types and all its queue tasks are
\* COMPLETED.
C38_TasksCompletedFirst ==
  [][\A p \in 1..MaxPipelines :
       BecomesCompleted(p) =>
         \A ty \in TaskType :
           /\ TasksOf(p, ty) # {}
           /\ \A id \in TasksOf(p, ty) : task'[id].status = COMPLETED]_vars

\* C38, what the code does: the status becomes completed inside the handler
\* of a SUMMARIZE task, which is then still RUNNING
C38_SummarizeRunning ==
  [][\A p \in 1..MaxPipelines :
       BecomesCompleted(p) =>
         \E t \in Workers :
           /\ pc[t] = "h_finish" /\ loc[t].pipe = p
           /\ task'[cur[t]].task_type = SUMMARIZE
           /\ task'[cur[t]].status = RUNNING]_vars

\* ======================================= ThreadPool: repeated wait_all
\* The callers submit and call wait_all, up to MaxRepeatedWaits times in all,
\* as repeated process_batch_concurrent calls do; no cancel, no shutdown.
MaxRepeatedWaits == 2

pool_wait_repeated(c) ==
  /\ tp.waits < MaxRepeatedWaits
  /\ wait_all_called(c)

NextWaits ==
  \/ \E c \in PoolCallers, fn \in PoolFuncs : pool_submit(c, fn)
  \/ \E c \in PoolCallers : pool_register(c)
  \/ \E c \in PoolCallers : pool_wait_repeated(c)
  \/ \E c \in PoolCallers, i \in PoolTaskIds : pool_wait_next(c, i)
  \/ \E c \in PoolCallers : pool_wait_return(c)
  \/ \E c \in PoolCallers : pool_wait_timeout(c)
  \/ \E i \in PoolTaskIds : ExecutorStep(i)

SpecWaits == InitPool /\ [][NextWaits]_vars

\* C39: in every reachable state of the pool completed_count + failed_count
\* is at most submitted_count, over any sequence of submit and wait_all
\* calls, wait_all called more than once included.
C39_CountersBounded ==
  tp.completed_count + tp.failed_count <= tp.submitted_count

\* C39, what the code does: every wait_all call counts each registered
\* future that is done once more
C39_CountedPerWait ==
  tp.completed_count + tp.failed_count <= tp.waits * tp.submitted_count

\* ===================================================== MessageQueue.clear
\* Beside the producer and the queue workers, any thread that is between two
\* calls may call clear, MaxClears times in all.
MaxClears == 1

\* an enqueue or a dequeue of task id has pushed or popped it and has not
\* yet executed its locked section
InProgress(id) ==
  \E t \in DOMAIN pc :
    \/ pc[t] \in {"enqueue_register", "dequeue_lock"} /\ cur[t] = id
    \/ pc[t] = "h_register" /\ loc[t].new = id

\* clear(), one step under the lock
clear(t) ==
  /\ pc[t] = "idle"
  /\ clears.n < MaxClears
  /\ mq_clear
  /\ LET dequeued == {id \in Minted : hist[id].deq >= 1}
     IN clears' = [n |-> clears.n + 1,
                   dequeued |-> clears.dequeued \cup dequeued,
                   settled |-> clears.settled \cup
                      {id \in dequeued : ~InProgress(id) /\ ~InCh(channel, id)}]
  /\ op' = OpRec("clear", 0, "ok", 0)
  /\ UNCHANGED <<pc, cur, task_metadata, results, cache, loc, pipe_hist, backend,
                 pool, lru, keygen, agg, tp, tg, sg>>

NextClear ==
  \/ NextConsumers
  \/ \E t \in {Main} \cup Consumers : clear(t)

SpecClear == InitConsumers /\ [][NextClear]_vars

\* the step is a mark_completed or mark_failed of task id that returns false
\* and changes nothing of the queue
RefusedMark(id) ==
  /\ op'.result = "false"
  /\ UNCHANGED <<channel, tasks, task, completed_count, failed_count>>

\* after a clear the channel and the side table are empty, the counters 0
Cleared ==
  op'.name = "clear" =>
    channel' = <<>> /\ tasks' = {} /\ completed_count' = 0 /\ failed_count' = 0

\* C40: a clear leaves the channel and the side table empty and both counters
\* 0, and every later mark_completed or mark_failed of a task that a dequeue
\* had returned before the clear returns false and changes nothing: no
\* registration, no re-enqueue, no counter.
C40_ClearedStaysCleared ==
  [][/\ Cleared
     /\ (op'.name \in {"mark_completed", "mark_failed"}
           /\ op'.task_id \in clears.dequeued) => RefusedMark(op'.task_id)]_vars

\* C40, what the code guarantees: the same for the tasks with no enqueue or
\* dequeue call in progress at the clear
C40_ClearedWhenSettled ==
  [][/\ Cleared
     /\ (op'.name \in {"mark_completed", "mark_failed"}
           /\ op'.task_id \in clears.settled) => RefusedMark(op'.task_id)]_vars
====
